---- MODULE Spec2Model ----
(***************************************************************************)
(* Model of the Coag-Sense tracker's device synchronisation engine:        *)
(*   - the Electron engine (electron-app/src/preload.js): per-connection   *)
(*     framing/dispatch (handleConnection, processMessages), the           *)
(*     observation extractor (parseObservationsXml) and the merge into     *)
(*     inr_results.json (finalizeTransfer);                                *)
(*   - the mobile engine: BLE sync (mobile-app/src/services/bluetooth.ts)  *)
(*     and the AsyncStorage store (storage.ts = unnamed/part_003).         *)
(*     Its store calls are also modelled across their await points, and   *)
(*     the time-in-range figure of the PDF report (unnamed/part_002) and   *)
(*     of the dashboard (SettingsScreen.tsx) as operators.                 *)
(*                                                                         *)
(* Text is modelled as a sequence of tokens.  A wire message of kind K is  *)
(* one body token followed by the two halves of its end-tag </K>, so that  *)
(* an end-tag can be split across appends.  Timestamps are the rank of the *)
(* device's fixed-width timestamp string in localeCompare order.  INR and  *)
(* PT values are in tenths.                                                *)
(***************************************************************************)
EXTENDS Integers, Sequences, FiniteSets, TLC

VARIABLES
    platform,      \* "electron" | "mobile": which application this installation runs
    dataFile,      \* Electron: content of inr_results.json (DATA_FILE)
    appData,       \* mobile: AsyncStorage item @coagsense_data
    diskOk,        \* environment: TRUE while writes to the store succeed
    clock,         \* environment: value of new Date() (logical time)
    last,          \* history: the last store operation and what it counted
    settingsFile,  \* Electron: the acceptObservations entry of settings.json
    state,         \* Electron: the process-wide `state` object
    sess,          \* Electron: per-connection closure state of handleConnection
    wire,          \* environment: tokens each device has still to send
    ble,           \* mobile: BluetoothService fields and the syncData call in progress
    calls,         \* store calls suspended at an await, and readers' loaded snapshots
    screen         \* mobile: SyncScreen's status and its pending scan / sync attempt

storeVars == <<dataFile, appData, diskOk, clock, last>>
engineVars == <<settingsFile, state, sess, wire, ble>>
vars == <<platform, dataFile, appData, diskOk, clock, last,
          settingsFile, state, sess, wire, ble, calls, screen>>

----------------------------------------------------------------------------
(* Bounds *)

MaxTs == 2       \* distinct observation timestamps
MaxCand == 2     \* observation groups in one batch / readings in one imported file
MaxMsgs == 2     \* complete messages of an arbitrary device stream

----------------------------------------------------------------------------
(* Data *)

Timestamps == 1..MaxTs

\* An optional attribute of the XML text: <<>> when the regex does not match.
Opt(S) == {<<>>} \cup {<<x>> : x \in S}

\* A parsed attribute value: num = FALSE when parseFloat gives NaN.
Num(n) == [num |-> TRUE, v |-> n]
NaN == [num |-> FALSE, v |-> 0]

\* One <SVC>...</SVC> group of an OBS.R01 message.
Group(t, s, st, i, p) == [dttm |-> t, seq |-> s, status |-> st, inr |-> i, pt |-> p]

\* A reading as stored.  sequence = 0 and status = "" stand for an absent field.
Reading(t, s, st, i, p) ==
    [timestamp |-> t, sequence |-> s, status |-> st, inr |-> i, pt_seconds |-> p]

NoDevice == [serial |-> "none", model |-> "none"]

DEFAULT_SETTINGS == [targetRangeMin |-> 20, targetRangeMax |-> 30]

\* Token kinds and parts.
Kinds == {"HEL", "DST", "OBS", "EOT", "ESC"}

\* serial: DEV.serial_id, model: DEV.model_id, qty: new_observations_qty,
\* groups: the <SVC> groups of the text; <<>> where the text has none.
Body(k, serial, model, qty, groups) ==
    [k |-> k, p |-> "body", serial |-> serial, model |-> model, qty |-> qty,
     groups |-> groups]
End1(k) ==
    [k |-> k, p |-> "e1", serial |-> <<>>, model |-> <<>>, qty |-> <<>>, groups |-> <<>>]
End2(k) ==
    [k |-> k, p |-> "e2", serial |-> <<>>, model |-> <<>>, qty |-> <<>>, groups |-> <<>>]

Message(body) == <<body, End1(body.k), End2(body.k)>>

ObsMessage(groups) == Message(Body("OBS", <<>>, <<>>, <<>>, groups))

\* All sequences over S of length at most n.
RECURSIVE SeqsUpTo(_, _)
SeqsUpTo(S, n) ==
    IF n = 0 THEN {<<>>}
    ELSE LET shorter == SeqsUpTo(S, n - 1)
         IN  shorter \cup {Append(s, x) : s \in {t \in shorter : Len(t) = n - 1}, x \in S}

Range(s) == {s[i] : i \in 1..Len(s)}

RECURSIVE Flatten(_)
Flatten(ss) == IF Len(ss) = 0 THEN <<>> ELSE Head(ss) \o Flatten(Tail(ss))

----------------------------------------------------------------------------
(* Observation extractor *)

\* The groups matched by /<SVC>([\s\S]*?)<\/SVC>/g in a text, in order.
SvcGroups(xml) == Flatten([i \in 1..Len(xml) |-> xml[i].groups])

\* Mutant: zero passes the test (>= 0 instead of > 0).
NotNegative(a) == Len(a) = 1 /\ a[1].num /\ a[1].v >= 0

\* obs.inr && obs.inr > 0: the value was set (parseFloat gave a number) and is positive.
Positive(a) == Len(a) = 1 /\ a[1].num /\ a[1].v > 0

\* preload.js parseObservationsXml: the status code is kept as reported.
parseObservationsXml(xml) ==
    LET gs == SvcGroups(xml)
        valid(g) == Len(g.dttm) = 1 /\ Positive(g.inr) /\ Positive(g.pt)
        obs(g) == Reading(g.dttm[1],
                          IF Len(g.seq) = 1 THEN g.seq[1] ELSE 0,
                          IF Len(g.status) = 1 THEN g.status[1] ELSE "",
                          g.inr[1].v, g.pt[1].v)
        kept == SelectSeq(gs, valid)
    IN  [i \in 1..Len(kept) |-> obs(kept[i])]

KnownStatus == {"NRM", "HI", "LO", "ERR"}

\* toUpperCase on the status codes the model uses.
ToUpperCase(s) ==
    CASE s = "nrm" -> "NRM" [] s = "hi" -> "HI" [] s = "lo" -> "LO"
      [] s = "err" -> "ERR" [] OTHER -> s

\* bluetooth.ts parseObservationsXml: status defaults to NRM, no sequence.
bleParseObservationsXml(xml) ==
    LET gs == SvcGroups(xml)
        valid(g) == Len(g.dttm) = 1 /\ Positive(g.inr) /\ Positive(g.pt)
        status(g) == IF Len(g.status) = 1 /\ ToUpperCase(g.status[1]) \in KnownStatus
                     THEN ToUpperCase(g.status[1]) ELSE "NRM"
        obs(g) == Reading(g.dttm[1], 0, status(g), g.inr[1].v, g.pt[1].v)
        kept == SelectSeq(gs, valid)
    IN  [i \in 1..Len(kept) |-> obs(kept[i])]

----------------------------------------------------------------------------
(* Reconciliation store *)

\* Mutant: the comparator with its arguments swapped (a descending sort).
TsGeq(a, b) == a.timestamp >= b.timestamp

\* a.timestamp.localeCompare(b.timestamp) <= 0
TsLeq(a, b) == a.timestamp <= b.timestamp

\* Array.prototype.sort with the timestamp comparator (a stable sort).
RECURSIVE SortByTimestamp(_)
SortByTimestamp(s) ==
    IF Len(s) = 0 THEN <<>>
    ELSE LET init == SortByTimestamp(SubSeq(s, 1, Len(s) - 1))
             x == s[Len(s)]
             k == Cardinality({i \in 1..Len(init) : TsLeq(init[i], x)})
         IN  SubSeq(init, 1, k) \o <<x>> \o SubSeq(init, k + 1, Len(init))

\* Mutant: no deduplication against the stored timestamps.
UniqueNewAll(existing, newReadings) == newReadings

\* newReadings.filter(r => !existingTimestamps.has(r.timestamp))
UniqueNew(existing, newReadings) ==
    LET existingTimestamps == {existing[i].timestamp : i \in 1..Len(existing)}
    IN  SelectSeq(newReadings, LAMBDA r : r.timestamp \notin existingTimestamps)

\* Mutant: the 0-based index used as the sequence number.
RenumberFromZero(s) == [i \in 1..Len(s) |-> [s[i] EXCEPT !.sequence = i - 1]]

\* allReadings.forEach((r, i) => r.sequence = i + 1)
Renumber(s) == [i \in 1..Len(s) |-> [s[i] EXCEPT !.sequence = i]]

\* Mutant: a candidate replaces the stored reading of the same timestamp.
MergeElectronReplacing(existing, newReadings) ==
    LET newTimestamps == {newReadings[i].timestamp : i \in 1..Len(newReadings)}
        kept == SelectSeq(existing, LAMBDA r : r.timestamp \notin newTimestamps)
    IN  Renumber(SortByTimestamp(kept \o newReadings))

\* preload.js finalizeTransfer, lines 443-460: the merged list.
MergeElectron(existing, newReadings) ==
    Renumber(SortByTimestamp(existing \o UniqueNew(existing, newReadings)))

\* Mutant: the new readings are appended and the list is left unsorted.
MergeMobileAppending(existing, newReadings) ==
    existing \o UniqueNew(existing, newReadings)

\* storage.ts addReadings / importData: the merged list.
MergeMobile(existing, newReadings) ==
    SortByTimestamp(existing \o UniqueNew(existing, newReadings))

\* preload.js saveData / storage.ts saveData: a failed write is caught and logged.
saveData(old, data) == IF diskOk THEN data ELSE old

\* Mutant: every candidate is reported as new.
finalizeTransferCountingAll(rawObservations) ==
    LET newReadings == Flatten([i \in 1..Len(rawObservations) |->
                                  parseObservationsXml(rawObservations[i])])
        allReadings == MergeElectron(dataFile.readings, newReadings)
        data == [device |-> state.deviceInfo, lastSync |-> clock,
                 totalReadings |-> Len(allReadings), readings |-> allReadings]
    IN  /\ dataFile' = saveData(dataFile, data)
        /\ last' = [op |-> "finalize", newCount |-> Len(newReadings),
                    total |-> Len(allReadings)]

\* preload.js finalizeTransfer(rawObservations); `last` is the payload of the
\* 'transfer-complete' notification.
finalizeTransfer(rawObservations) ==
    LET newReadings == Flatten([i \in 1..Len(rawObservations) |->
                                  parseObservationsXml(rawObservations[i])])
        existingReadings == dataFile.readings
        uniqueNew == UniqueNew(existingReadings, newReadings)
        allReadings == MergeElectron(existingReadings, newReadings)
        data == [device |-> state.deviceInfo, lastSync |-> clock,
                 totalReadings |-> Len(allReadings), readings |-> allReadings]
    IN  /\ dataFile' = saveData(dataFile, data)
        /\ last' = [op |-> "finalize", newCount |-> Len(uniqueNew),
                    total |-> Len(allReadings)]

\* ipcMain.handle('import-data'): the chosen file replaces the data file.
ImportDataElectron(data) ==
    /\ platform = "electron"
    /\ dataFile' = saveData(dataFile, data)
    /\ last' = [op |-> "import", newCount |-> 0, total |-> 0]
    /\ UNCHANGED <<platform, calls, screen, appData, diskOk, clock, engineVars>>

\* saveSettings(settings): like saveData, a failed write is only logged.
saveSettings(old, settings) == IF diskOk THEN settings ELSE old

\* ipcMain.handle('save-settings'): { ...current, ...settings }; "absent" is an
\* update without the acceptObservations key.
SaveSettingsElectron(settings) ==
    /\ platform = "electron"
    /\ settingsFile' = saveSettings(settingsFile,
                          IF settings = "absent" THEN settingsFile ELSE settings)
    /\ last' = [op |-> "saveSettings", newCount |-> 0, total |-> 0]
    /\ UNCHANGED <<platform, calls, screen, dataFile, appData, diskOk, clock, state, sess, wire, ble>>

\* Mutant: the data file is emptied whatever the dialog's answer.
ClearDataElectronUnconfirmed(confirmed) ==
    /\ platform = "electron"
    /\ dataFile' = saveData(dataFile, [device |-> NoDevice, lastSync |-> 0,
                                       totalReadings |-> -1, readings |-> <<>>])
    /\ last' = [op |-> IF confirmed THEN "clear" ELSE "cancel",
                newCount |-> 0, total |-> 0]
    /\ UNCHANGED <<platform, calls, screen, appData, diskOk, clock, engineVars>>

\* ipcMain.handle('clear-data'): confirmed is the dialog's answer.
ClearDataElectron(confirmed) ==
    /\ platform = "electron"
    /\ dataFile' = IF confirmed
                   THEN saveData(dataFile, [device |-> NoDevice, lastSync |-> 0,
                                            totalReadings |-> -1, readings |-> <<>>])
                   ELSE dataFile
    /\ last' = [op |-> IF confirmed THEN "clear" ELSE "cancel",
                newCount |-> 0, total |-> 0]
    /\ UNCHANGED <<platform, calls, screen, appData, diskOk, clock, engineVars>>

\* storage.ts addReadings.
addReadings(newReadings) ==
    /\ platform = "mobile"
    /\ appData' = saveData(appData,
                    [appData EXCEPT !.readings = MergeMobile(appData.readings, newReadings),
                                    !.lastSync = clock])
    /\ last' = [op |-> "addReadings",
                newCount |-> Len(UniqueNew(appData.readings, newReadings)),
                total |-> Len(MergeMobile(appData.readings, newReadings))]
    /\ UNCHANGED <<platform, calls, screen, dataFile, diskOk, clock, engineVars>>

\* { ...current, ...update }: the keys of the update replace those of current.
MergeSettings(current, update) ==
    [key \in DOMAIN current |->
        IF key \in DOMAIN update THEN update[key] ELSE current[key]]

\* storage.ts updateSettings.
updateSettings(settings) ==
    /\ platform = "mobile"
    /\ appData' = saveData(appData,
                    [appData EXCEPT !.settings = MergeSettings(appData.settings, settings)])
    /\ last' = [op |-> "updateSettings", newCount |-> 0, total |-> 0]
    /\ UNCHANGED <<platform, calls, screen, dataFile, diskOk, clock, engineVars>>

\* Mutant: the imported readings replace the stored ones.
importDataReplacing(hasReadings, imported) ==
    /\ platform = "mobile"
    /\ IF hasReadings
       THEN /\ appData' = saveData(appData,
                    [appData EXCEPT !.readings = SortByTimestamp(imported)])
            /\ last' = [op |-> "importData",
                        newCount |-> Len(UniqueNew(appData.readings, imported)),
                        total |-> Len(imported)]
       ELSE /\ appData' = appData
            /\ last' = [op |-> "importInvalid", newCount |-> 0, total |-> 0]
    /\ UNCHANGED <<platform, calls, screen, dataFile, diskOk, clock, engineVars>>

\* storage.ts importData; hasReadings = FALSE is a JSON text without a readings
\* array. The imported file of the model carries no settings.
importData(hasReadings, imported) ==
    /\ platform = "mobile"
    /\ IF hasReadings
       THEN /\ appData' = saveData(appData,
                    [appData EXCEPT !.readings = MergeMobile(appData.readings, imported)])
            /\ last' = [op |-> "importData",
                        newCount |-> Len(UniqueNew(appData.readings, imported)),
                        total |-> Len(MergeMobile(appData.readings, imported))]
       ELSE /\ appData' = appData
            /\ last' = [op |-> "importInvalid", newCount |-> 0, total |-> 0]
    /\ UNCHANGED <<platform, calls, screen, dataFile, diskOk, clock, engineVars>>

\* storage.ts clearReadings.
clearReadings ==
    /\ platform = "mobile"
    /\ appData' = saveData(appData, [appData EXCEPT !.readings = <<>>, !.lastSync = 0])
    /\ last' = [op |-> "clear", newCount |-> 0, total |-> 0]
    /\ UNCHANGED <<platform, calls, screen, dataFile, diskOk, clock, engineVars>>

----------------------------------------------------------------------------
(* Message framer and session state machine: Electron *)

Conns == {"s1", "s2"}

\* buffer.indexOf('</K>'): the position of the end-tag's first half, 0 for -1.
IndexOfEnd(buffer, k) ==
    LET hits == {i \in 1..(Len(buffer) - 1) :
                    /\ buffer[i].k = k /\ buffer[i].p = "e1"
                    /\ buffer[i + 1].k = k /\ buffer[i + 1].p = "e2"}
    IN  IF hits = {} THEN 0 ELSE CHOOSE i \in hits : \A j \in hits : i <= j

\* Mutant: the test looks for the message's start instead of its end-tag.
IncludesStart(buffer, k) ==
    \E i \in 1..Len(buffer) : buffer[i].k = k /\ buffer[i].p = "body"

\* buffer.includes('</K>')
Includes(buffer, k) == IndexOfEnd(buffer, k) # 0

\* buffer.substring(0, endIdx) and buffer.substring(endIdx), endIdx = indexOf + 10.
MessageUpTo(buffer, k) == SubSeq(buffer, 1, IndexOfEnd(buffer, k) + 1)
RestAfter(buffer, k) == SubSeq(buffer, IndexOfEnd(buffer, k) + 2, Len(buffer))

\* message.match(/ATTR V="..."/): the first occurrence of the attribute in the text.
FirstAttr(message, attr) ==
    LET at(i) == CASE attr = "serial" -> message[i].serial
                   [] attr = "model" -> message[i].model
                   [] OTHER -> message[i].qty
        hits == {i \in 1..Len(message) : Len(at(i)) = 1}
    IN  IF hits = {} THEN <<>> ELSE at(CHOOSE i \in hits : \A j \in hits : i <= j)

\* nextControlId + socket.write of an ACK.R01 / REQ.R01; `re` records which
\* dispatched message the write answers.
Ack(c, accept, re) ==
    [c EXCEPT !.controlId = c.controlId + 1,
              !.out = Append(c.out, [kind |-> "ACK",
                                     type |-> IF accept THEN "AA" ELSE "AR",
                                     id |-> c.controlId + 1, re |-> re])]

\* Mutant: the request is written with the identifier of the write before it.
ReqReusingId(c) ==
    [c EXCEPT !.out = Append(c.out, [kind |-> "REQ", type |-> "ROBS",
                                     id |-> c.controlId, re |-> "DST"])]

Req(c) ==
    [c EXCEPT !.controlId = c.controlId + 1,
              !.out = Append(c.out, [kind |-> "REQ", type |-> "ROBS",
                                     id |-> c.controlId + 1, re |-> "DST"])]

Dispatched(c, k, message) ==
    [c EXCEPT !.dispatched = Append(c.dispatched, [kind |-> k, text |-> message])]

\* preload.js processMessages, the HEL.R01 block.
sendAckHel(c) == Ack(c, TRUE, "HEL")

HelBlock(c) ==
    IF Includes(c.buffer, "HEL")
    THEN LET message == MessageUpTo(c.buffer, "HEL")
             serialMatch == FirstAttr(message, "serial")
             modelMatch == FirstAttr(message, "model")
             info == [serial |-> IF Len(serialMatch) = 1 THEN serialMatch[1] ELSE "Unknown",
                      model |-> IF Len(modelMatch) = 1 THEN modelMatch[1]
                                ELSE "Coag-Sense PT/INR"]
             c1 == [c EXCEPT !.buffer = RestAfter(c.buffer, "HEL"), !.deviceInfo = info]
         IN  sendAckHel(Dispatched(c1, "HEL", message))
    ELSE c

\* Mutant: the request is sent for every status report.
DstRequestAlways(c) == Req([c EXCEPT !.sentRequest = TRUE])

\* preload.js processMessages, the DST.R01 block.
DstRequest(c) == IF ~c.sentRequest THEN Req([c EXCEPT !.sentRequest = TRUE]) ELSE c

\* Mutant: the request is written before the acknowledgment.
DstBlockRequestFirst(c) ==
    IF Includes(c.buffer, "DST")
    THEN LET message == MessageUpTo(c.buffer, "DST")
             countMatch == FirstAttr(message, "qty")
             c1 == [c EXCEPT !.buffer = RestAfter(c.buffer, "DST"),
                             !.totalAvailable =
                                 IF Len(countMatch) = 1 THEN countMatch[1] ELSE 0]
         IN  Ack(DstRequest(Dispatched(c1, "DST", message)), TRUE, "DST")
    ELSE c

DstBlock(c) ==
    IF Includes(c.buffer, "DST")
    THEN LET message == MessageUpTo(c.buffer, "DST")
             countMatch == FirstAttr(message, "qty")
             c1 == [c EXCEPT !.buffer = RestAfter(c.buffer, "DST"),
                             !.totalAvailable =
                                 IF Len(countMatch) = 1 THEN countMatch[1] ELSE 0]
         IN  DstRequest(Ack(Dispatched(c1, "DST", message), TRUE, "DST"))
    ELSE c

\* Mutant: every batch is accepted, whatever the setting.
sendAckObsAlwaysAccept(c) == Ack(c, TRUE, "OBS")

\* preload.js processMessages, the OBS.R01 block.
sendAckObs(c) == Ack(c, c.acceptObservations, "OBS")

ObsBlock(c) ==
    IF Includes(c.buffer, "OBS")
    THEN LET message == MessageUpTo(c.buffer, "OBS")
             svcCount == Len(SvcGroups(message))
             c1 == [c EXCEPT !.buffer = RestAfter(c.buffer, "OBS"),
                             !.observationsReceived = c.observationsReceived + svcCount,
                             !.rawObservations = Append(c.rawObservations, message)]
         IN  sendAckObs(Dispatched(c1, "OBS", message))
    ELSE c

\* Mutant: the end-of-topic acknowledgment follows the accept/reject setting.
sendAckEotPolicy(c) == Ack(c, c.acceptObservations, "EOT")

\* preload.js processMessages, the EOT.R01 block.
sendAckEot(c) == Ack(c, TRUE, "EOT")

EotBlock(c) ==
    IF Includes(c.buffer, "EOT")
    THEN LET message == MessageUpTo(c.buffer, "EOT")
             c1 == [c EXCEPT !.buffer = RestAfter(c.buffer, "EOT")]
         IN  sendAckEot(Dispatched(c1, "EOT", message))
    ELSE c

\* Mutant: the escape is acknowledged like the other messages.
EscBlockAcknowledged(c) ==
    IF Includes(c.buffer, "ESC")
    THEN Ack([c EXCEPT !.errors = c.errors + 1], TRUE, "ESC")
    ELSE c

\* preload.js processMessages, the ESC.R01 block: one 'error' notification, the
\* buffer is left as it is.
EscBlock(c) ==
    IF Includes(c.buffer, "ESC") THEN [c EXCEPT !.errors = c.errors + 1] ELSE c

\* preload.js processMessages: each block runs once, in this order.
processMessages(c) == EscBlock(EotBlock(ObsBlock(DstBlock(HelBlock(c)))))

\* Mutant: a truthiness test instead of === true.
AcceptObservationsTruthy(setting) == setting \notin {"absent", "false"}

\* const acceptObservations = settings.acceptObservations === true
AcceptObservations(setting) == setting = "true"

NoSession ==
    [phase |-> "none", buffer |-> <<>>, controlId |-> 20000, totalAvailable |-> 0,
     sentRequest |-> FALSE, rawObservations |-> <<>>, acceptObservations |-> FALSE,
     cfg |-> "absent", out |-> <<>>, dispatched |-> <<>>, errors |-> 0, merges |-> 0,
     recv |-> <<>>]

\* Mutant: the policy is read from the settings file at every data event.
CtxCurrentSettings(s) ==
    [buffer |-> sess[s].buffer, controlId |-> sess[s].controlId,
     totalAvailable |-> sess[s].totalAvailable, sentRequest |-> sess[s].sentRequest,
     rawObservations |-> sess[s].rawObservations,
     acceptObservations |-> AcceptObservations(settingsFile),
     out |-> sess[s].out, dispatched |-> sess[s].dispatched, errors |-> sess[s].errors,
     observationsReceived |-> state.observationsReceived,
     deviceInfo |-> state.deviceInfo]

\* The closure variables and the parts of `state` that processMessages touches.
Ctx(s) ==
    [buffer |-> sess[s].buffer, controlId |-> sess[s].controlId,
     totalAvailable |-> sess[s].totalAvailable, sentRequest |-> sess[s].sentRequest,
     rawObservations |-> sess[s].rawObservations,
     acceptObservations |-> sess[s].acceptObservations,
     out |-> sess[s].out, dispatched |-> sess[s].dispatched, errors |-> sess[s].errors,
     observationsReceived |-> state.observationsReceived,
     deviceInfo |-> state.deviceInfo]

\* handleConnection(socket): the device's stream is chosen here.
handleConnection(s, stream) ==
    /\ platform = "electron"
    /\ sess[s].phase = "none"
    /\ state' = [state EXCEPT !.deviceConnected = TRUE, !.transferInProgress = TRUE,
                              !.observationsReceived = 0]
    /\ sess' = [sess EXCEPT ![s] = [NoSession EXCEPT
                    !.phase = "open", !.cfg = settingsFile,
                    !.acceptObservations = AcceptObservations(settingsFile)]]
    /\ wire' = [wire EXCEPT ![s] = stream]
    /\ UNCHANGED <<platform, calls, screen, storeVars, settingsFile, ble>>

\* Mutant: the chunk replaces the buffer instead of being appended to it.
OnDataOverwrite(s, n) ==
    /\ platform = "electron"
    /\ sess[s].phase = "open"
    /\ n \in 1..Len(wire[s])
    /\ LET c0 == [Ctx(s) EXCEPT !.buffer = SubSeq(wire[s], 1, n)]
           c == processMessages(c0)
       IN  /\ sess' = [sess EXCEPT ![s] = [sess[s] EXCEPT
                          !.buffer = c.buffer, !.controlId = c.controlId,
                          !.totalAvailable = c.totalAvailable,
                          !.sentRequest = c.sentRequest,
                          !.rawObservations = c.rawObservations,
                          !.out = c.out, !.dispatched = c.dispatched,
                          !.errors = c.errors,
                          !.recv = sess[s].recv \o SubSeq(wire[s], 1, n)]]
           /\ state' = [state EXCEPT !.observationsReceived = c.observationsReceived,
                                     !.deviceInfo = c.deviceInfo]
    /\ wire' = [wire EXCEPT ![s] = SubSeq(wire[s], n + 1, Len(wire[s]))]
    /\ UNCHANGED <<platform, calls, screen, storeVars, settingsFile, ble>>

\* socket.on('data'): the next n tokens of the stream arrive in one chunk.
OnData(s, n) ==
    /\ platform = "electron"
    /\ sess[s].phase = "open"
    /\ n \in 1..Len(wire[s])
    /\ LET c0 == [Ctx(s) EXCEPT !.buffer = sess[s].buffer \o SubSeq(wire[s], 1, n)]
           c == processMessages(c0)
       IN  /\ sess' = [sess EXCEPT ![s] = [sess[s] EXCEPT
                          !.buffer = c.buffer, !.controlId = c.controlId,
                          !.totalAvailable = c.totalAvailable,
                          !.sentRequest = c.sentRequest,
                          !.rawObservations = c.rawObservations,
                          !.out = c.out, !.dispatched = c.dispatched,
                          !.errors = c.errors,
                          !.recv = sess[s].recv \o SubSeq(wire[s], 1, n)]]
           /\ state' = [state EXCEPT !.observationsReceived = c.observationsReceived,
                                     !.deviceInfo = c.deviceInfo]
    /\ wire' = [wire EXCEPT ![s] = SubSeq(wire[s], n + 1, Len(wire[s]))]
    /\ UNCHANGED <<platform, calls, screen, storeVars, settingsFile, ble>>

\* Mutant: the transfer is finalized only when EOT.R01 was received.
OnCloseAfterEot(s) ==
    /\ platform = "electron"
    /\ sess[s].phase = "open"
    /\ state' = [state EXCEPT !.deviceConnected = FALSE, !.transferInProgress = FALSE]
    /\ IF \E i \in 1..Len(sess[s].dispatched) : sess[s].dispatched[i].kind = "EOT"
       THEN finalizeTransfer(sess[s].rawObservations)
       ELSE UNCHANGED <<dataFile, last>>
    /\ sess' = [sess EXCEPT ![s] = [sess[s] EXCEPT !.phase = "closed",
                                                    !.merges = sess[s].merges + 1]]
    /\ UNCHANGED <<platform, calls, screen, appData, diskOk, clock, settingsFile, wire, ble>>

\* socket.on('close')
OnClose(s) ==
    /\ platform = "electron"
    /\ sess[s].phase = "open"
    /\ state' = [state EXCEPT !.deviceConnected = FALSE, !.transferInProgress = FALSE]
    /\ finalizeTransfer(sess[s].rawObservations)
    /\ sess' = [sess EXCEPT ![s] = [sess[s] EXCEPT !.phase = "closed",
                                                    !.merges = sess[s].merges + 1]]
    /\ UNCHANGED <<platform, calls, screen, appData, diskOk, clock, settingsFile, wire, ble>>

----------------------------------------------------------------------------
(* Message framer and session state machine: BLE (bluetooth.ts) *)

\* bluetooth.ts processMessages, block by block; c holds this.dataBuffer (buffer),
\* this.controlId, and the readings / totalAvailable of the syncData call.
\* sendData(data): written only when a TX characteristic was found and is
\* writable; otherwise the call returns without writing.
bleSendData(c, sent) == IF c.tx THEN sent ELSE [sent EXCEPT !.out = c.out]

\* sendAck(accept) of bluetooth.ts: ++this.controlId, then sendData.
bleSendAck(c, accept, re) == bleSendData(c, Ack(c, accept, re))

bleSendAckHel(c) == bleSendAck(c, TRUE, "HEL")

bleHelBlock(c) ==
    IF Includes(c.buffer, "HEL")
    THEN LET message == MessageUpTo(c.buffer, "HEL")
             c1 == [c EXCEPT !.buffer = RestAfter(c.buffer, "HEL")]
         IN  bleSendAckHel(Dispatched(c1, "HEL", message))
    ELSE c

bleDstBlock(c) ==
    IF Includes(c.buffer, "DST")
    THEN LET message == MessageUpTo(c.buffer, "DST")
             countMatch == FirstAttr(message, "qty")
             c1 == [c EXCEPT !.buffer = RestAfter(c.buffer, "DST"),
                             !.totalAvailable =
                                 IF Len(countMatch) = 1 THEN countMatch[1] ELSE 0]
         IN  bleSendAck(Dispatched(c1, "DST", message), TRUE, "DST")
    ELSE c

\* Mutant: the batch is acknowledged with accept.
bleSendAckObsAccept(c) == bleSendAck(c, TRUE, "OBS")

\* bluetooth.ts processMessages, the OBS.R01 block: this.sendAck(false).
bleSendAckObs(c) == bleSendAck(c, FALSE, "OBS")

bleObsBlock(c) ==
    IF Includes(c.buffer, "OBS")
    THEN LET message == MessageUpTo(c.buffer, "OBS")
             c1 == [c EXCEPT !.buffer = RestAfter(c.buffer, "OBS"),
                             !.readings = c.readings \o bleParseObservationsXml(message)]
         IN  bleSendAckObs(Dispatched(c1, "OBS", message))
    ELSE c

bleEotBlock(c) ==
    IF Includes(c.buffer, "EOT")
    THEN LET message == MessageUpTo(c.buffer, "EOT")
             c1 == [c EXCEPT !.buffer = RestAfter(c.buffer, "EOT")]
         IN  bleSendAck(Dispatched(c1, "EOT", message), TRUE, "EOT")
    ELSE c

bleProcessMessages(c) == bleEotBlock(bleObsBlock(bleDstBlock(bleHelBlock(c))))

\* sendRawBytes(bytes)
Raw(c, byte) ==
    bleSendData(c, [c EXCEPT !.out = Append(c.out, [kind |-> "RAW", type |-> byte,
                                                     id |-> 0, re |-> ""])])

\* sendRequestObservations of bluetooth.ts
bleReq(c) ==
    bleSendData(c, [c EXCEPT !.controlId = c.controlId + 1,
                             !.out = Append(c.out, [kind |-> "REQ", type |-> "ROBS",
                                                    id |-> c.controlId + 1, re |-> ""])])

NoBle ==
    [connected |-> FALSE, rx |-> FALSE, tx |-> FALSE, pc |-> "idle", buffer |-> <<>>,
     controlId |-> 20000,
     readings |-> <<>>, totalAvailable |-> 0, out |-> <<>>, dispatched |-> <<>>,
     result |-> <<>>, recv |-> <<>>]

\* connect(deviceId): rx says that a notifying characteristic was found, tx that
\* a writable TX characteristic was; with neither, connect throws. The
\* device's stream is chosen here.
bleConnect(stream, rx, tx) ==
    /\ platform = "mobile"
    /\ ~ble.connected
    /\ ble.pc = "idle"
    /\ rx \/ tx
    /\ ble' = [ble EXCEPT !.connected = TRUE, !.rx = rx, !.tx = tx]
    /\ wire' = [wire EXCEPT !["ble"] = IF rx THEN stream ELSE <<>>]
    /\ UNCHANGED <<platform, calls, screen, storeVars, settingsFile, state, sess>>

\* syncData, up to the first wait: throws without a connected device, otherwise
\* resets the buffer and subscribes handleData.
syncDataStart ==
    /\ platform = "mobile"
    /\ ble.pc = "idle"
    /\ ble' = IF ~ble.connected
              THEN [ble EXCEPT !.pc = "rejected"]
              ELSE [ble EXCEPT !.pc = "wait3000", !.buffer = <<>>, !.readings = <<>>,
                               !.totalAvailable = 0]
    /\ UNCHANGED <<platform, calls, screen, storeVars, settingsFile, state, sess, wire>>

\* handleData: a notification with the next n tokens.
bleHandleData(n) ==
    /\ platform = "mobile"
    /\ ble.pc \in {"wait3000", "wait2000a", "wait2000b", "wait15000", "resolved"}
    /\ n \in 1..Len(wire["ble"])
    /\ ble' = bleProcessMessages([ble EXCEPT
                  !.buffer = ble.buffer \o SubSeq(wire["ble"], 1, n),
                  !.recv = ble.recv \o SubSeq(wire["ble"], 1, n)])
    /\ wire' = [wire EXCEPT !["ble"] = SubSeq(wire["ble"], n + 1, Len(wire["ble"]))]
    /\ UNCHANGED <<platform, calls, screen, storeVars, settingsFile, state, sess>>

\* syncData after the 3000 ms wait: the readings.length === 0 test.
bleRequestIfEmpty(c) ==
    IF Len(c.readings) = 0 THEN Raw([c EXCEPT !.pc = "wait2000a"], 1)
    ELSE [c EXCEPT !.pc = "wait15000"]

syncDataAfterWait ==
    /\ platform = "mobile"
    /\ ble.pc = "wait3000"
    /\ ble' = bleRequestIfEmpty(ble)
    /\ UNCHANGED <<platform, calls, screen, storeVars, settingsFile, state, sess, wire>>

\* syncData after the first 2000 ms wait: sendRawBytes([0x52]).
syncDataSecondCommand ==
    /\ platform = "mobile"
    /\ ble.pc = "wait2000a"
    /\ ble' = Raw([ble EXCEPT !.pc = "wait2000b"], 82)
    /\ UNCHANGED <<platform, calls, screen, storeVars, settingsFile, state, sess, wire>>

\* syncData after the second 2000 ms wait: sendRequestObservations().
syncDataRequest ==
    /\ platform = "mobile"
    /\ ble.pc = "wait2000b"
    /\ ble' = bleReq([ble EXCEPT !.pc = "wait15000"])
    /\ UNCHANGED <<platform, calls, screen, storeVars, settingsFile, state, sess, wire>>

\* Mutant: syncData resolves only once a reading has been parsed.
syncDataResolveWithReadings ==
    /\ platform = "mobile"
    /\ ble.pc = "wait15000"
    /\ Len(ble.readings) > 0
    /\ ble' = [ble EXCEPT !.pc = "resolved", !.result = ble.readings]
    /\ UNCHANGED <<platform, calls, screen, storeVars, settingsFile, state, sess, wire>>

\* syncData after the 15000 ms wait: resolve(readings).
syncDataResolve ==
    /\ platform = "mobile"
    /\ ble.pc = "wait15000"
    /\ ble' = [ble EXCEPT !.pc = "resolved", !.result = ble.readings]
    /\ UNCHANGED <<platform, calls, screen, storeVars, settingsFile, state, sess, wire>>

----------------------------------------------------------------------------
(* Inputs *)

Devices == Conns \cup {"ble"}

\* Groups a device reports in the store specification: a valid group per
\* timestamp, with a device sequence number that is not its rank.
StoreGroup(t) == Group(<<t>>, <<7>>, <<"NRM">>, <<Num(25)>>, <<Num(300)>>)
CandidateGroups == SeqsUpTo({StoreGroup(t) : t \in Timestamps}, MaxCand)

\* Readings of an imported file: any order, any sequence numbers.
ImportedReadings ==
    SeqsUpTo({Reading(t, 5, "NRM", 35, 310) : t \in Timestamps}, MaxCand)

\* Groups and messages a device sends in the session specification.
GroupA == Group(<<1>>, <<7>>, <<"NRM">>, <<Num(25)>>, <<Num(300)>>)
GroupB == Group(<<2>>, <<7>>, <<"hi">>, <<Num(35)>>, <<Num(310)>>)
GroupMalformed == Group(<<2>>, <<8>>, <<"NRM">>, <<>>, <<Num(310)>>)

WireMessages ==
    { Message(Body("HEL", <<"PT2-1">>, <<>>, <<>>, <<>>)),
      Message(Body("DST", <<>>, <<>>, <<2>>, <<>>)),
      ObsMessage(<<GroupA, GroupMalformed>>),
      ObsMessage(<<GroupB>>),
      Message(Body("EOT", <<>>, <<>>, <<>>, <<>>)),
      Message(Body("ESC", <<>>, <<>>, <<>>, <<>>)) }

Hello == Message(Body("HEL", <<"PT2-1">>, <<>>, <<>>, <<>>))
StatusReport == Message(Body("DST", <<>>, <<>>, <<2>>, <<>>))
EndOfExchange == Message(Body("EOT", <<>>, <<>>, <<>>, <<>>))

\* The documented exchange (README, Connection Flow), and two batches before the end.
ScenarioStreams ==
    { Hello \o StatusReport \o ObsMessage(<<GroupA, GroupB, GroupMalformed>>)
        \o EndOfExchange,
      ObsMessage(<<GroupA, GroupMalformed>>) \o ObsMessage(<<GroupB>>) \o EndOfExchange }

\* Every stream of at most MaxMsgs complete messages, and the scenarios.
Streams == {Flatten(ms) : ms \in SeqsUpTo(WireMessages, MaxMsgs)} \cup ScenarioStreams

SettingValues == {"absent", "true", "false", "other"}

\* Updates the settings screen makes: one key, or the target range.
SettingsUpdates ==
    { [targetRangeMin |-> 25], [targetRangeMin |-> 20, targetRangeMax |-> 30] }

\* Groups for the extractor: two well-formed ones, and one for each way a
\* timestamp or a value can be missing, not a number, zero or negative.
ExtractGroups ==
    { Group(<<1>>, <<7>>, <<"NRM">>, <<Num(25)>>, <<Num(300)>>),
      Group(<<2>>, <<>>, <<>>, <<Num(35)>>, <<Num(310)>>),
      Group(<<>>, <<8>>, <<"NRM">>, <<Num(25)>>, <<Num(300)>>),
      Group(<<2>>, <<8>>, <<"NRM">>, <<>>, <<Num(300)>>),
      Group(<<2>>, <<8>>, <<"NRM">>, <<NaN>>, <<Num(300)>>),
      Group(<<2>>, <<8>>, <<"NRM">>, <<Num(0)>>, <<Num(300)>>),
      Group(<<2>>, <<8>>, <<"NRM">>, <<Num(-25)>>, <<Num(300)>>),
      Group(<<2>>, <<8>>, <<"NRM">>, <<Num(25)>>, <<>>),
      Group(<<2>>, <<8>>, <<"NRM">>, <<Num(25)>>, <<NaN>>),
      Group(<<2>>, <<8>>, <<"NRM">>, <<Num(25)>>, <<Num(0)>>),
      Group(<<2>>, <<8>>, <<"NRM">>, <<Num(25)>>, <<Num(-300)>>) }

\* A batch of at most MaxCand such groups.
ExtractBatches == {ObsMessage(groups) : groups \in SeqsUpTo(ExtractGroups, MaxCand)}

EmptyData == [device |-> NoDevice, lastSync |-> 0, totalReadings |-> -1, readings |-> <<>>]
EmptyApp == [readings |-> <<>>, lastSync |-> 0, settings |-> DEFAULT_SETTINGS]
NoOp == [op |-> "none", newCount |-> 0, total |-> 0]

\* SyncScreen after mount: status 'idle', no scan promise pending, no device
\* listed, connectAndSync not called.
NoScreen == [status |-> "idle", scan |-> "none", devices |-> FALSE, pc |-> "none"]
InitialState ==
    [deviceConnected |-> FALSE, transferInProgress |-> FALSE, observationsReceived |-> 0,
     deviceInfo |-> NoDevice]

----------------------------------------------------------------------------
(* Mobile store calls across their await points (storage.ts) *)

\* Calls of the store's async functions that may be in flight together.
Tasks == {"t1", "t2"}

\* pc: "idle" before the call, "loaded" while it is suspended between
\* `await loadData()` and `await saveData(data)`, "done" after it returned.
\* data is the value loadData resolved with, arg the call's argument.
NoCall == [pc |-> "idle", op |-> "none", data |-> EmptyApp, arg |-> <<>>]

\* storage.ts addReadings, up to the first await: const data = await loadData().
addReadingsLoad(t, newReadings) ==
    /\ platform = "mobile"
    /\ calls[t].pc = "idle"
    /\ calls' = [calls EXCEPT ![t] = [pc |-> "loaded", op |-> "addReadings",
                                      data |-> appData, arg |-> newReadings]]
    /\ UNCHANGED <<platform, screen, storeVars, engineVars>>

\* storage.ts addReadings, the rest: the merge into the loaded data and
\* await saveData(data).
addReadingsSave(t) ==
    /\ platform = "mobile"
    /\ calls[t].pc = "loaded" /\ calls[t].op = "addReadings"
    /\ LET data == calls[t].data
           newReadings == calls[t].arg
       IN  /\ appData' = saveData(appData,
                    [data EXCEPT !.readings = MergeMobile(data.readings, newReadings),
                                 !.lastSync = clock])
           /\ last' = [op |-> "addReadings",
                       newCount |-> Len(UniqueNew(data.readings, newReadings)),
                       total |-> Len(MergeMobile(data.readings, newReadings))]
    /\ calls' = [calls EXCEPT ![t].pc = "done"]
    /\ UNCHANGED <<platform, screen, dataFile, diskOk, clock, engineVars>>

\* storage.ts updateSettings, up to the first await.
updateSettingsLoad(t, settings) ==
    /\ platform = "mobile"
    /\ calls[t].pc = "idle"
    /\ calls' = [calls EXCEPT ![t] = [pc |-> "loaded", op |-> "updateSettings",
                                      data |-> appData, arg |-> settings]]
    /\ UNCHANGED <<platform, screen, storeVars, engineVars>>

\* storage.ts updateSettings, the rest: the whole loaded data is written back.
updateSettingsSave(t) ==
    /\ platform = "mobile"
    /\ calls[t].pc = "loaded" /\ calls[t].op = "updateSettings"
    /\ LET data == calls[t].data
       IN  appData' = saveData(appData,
                    [data EXCEPT !.settings = MergeSettings(data.settings, calls[t].arg)])
    /\ last' = [op |-> "updateSettings", newCount |-> 0, total |-> 0]
    /\ calls' = [calls EXCEPT ![t].pc = "done"]
    /\ UNCHANGED <<platform, screen, dataFile, diskOk, clock, engineVars>>

\* ipcMain.handle('get-readings'): the renderer is handed loadData().
GetReadings(t) ==
    /\ platform = "electron"
    /\ calls[t].op \in {"none", "get-readings"}
    /\ calls' = [calls EXCEPT ![t] = [pc |-> "done", op |-> "get-readings",
                                      data |-> dataFile, arg |-> <<>>]]
    /\ UNCHANGED <<platform, screen, storeVars, engineVars>>

\* storage.ts loadData called by a reader (a screen's loadReadings).
loadData(t) ==
    /\ platform = "mobile"
    /\ calls[t].op \in {"none", "loadData"}
    /\ calls' = [calls EXCEPT ![t] = [pc |-> "done", op |-> "loadData",
                                      data |-> appData, arg |-> <<>>]]
    /\ UNCHANGED <<platform, screen, storeVars, engineVars>>

----------------------------------------------------------------------------
(* SyncScreen (SettingsScreen.tsx): status, scan and connectAndSync *)

\* screen.status is the `status` state; screen.scan says whether the promise of
\* scanForDevices is pending ("pending"), pending after stopDeviceScan
\* ("stopped") or absent ("none"); screen.devices whether a device is
\* listed; screen.pc is the position of the connectAndSync call: "none",
\* "connect" (await connect), "sync" (await syncData), "save" (await
\* addReadings), "done" or "failed".  One scan promise and one connectAndSync
\* call are followed.

\* startScan, up to await scanForDevices; the button is rendered in status 'idle'.
startScan ==
    /\ platform = "mobile"
    /\ screen.status = "idle"
    /\ screen.scan = "none"
    /\ screen' = [screen EXCEPT !.status = "scanning", !.scan = "pending",
                                !.devices = FALSE]
    /\ UNCHANGED <<platform, calls, storeVars, engineVars>>

\* The onDeviceFound callback of the running scan.
onDeviceFound ==
    /\ platform = "mobile"
    /\ screen.scan = "pending"
    /\ screen' = [screen EXCEPT !.devices = TRUE]
    /\ UNCHANGED <<platform, calls, storeVars, engineVars>>

\* scanForDevices resolves at its timeout (stopDeviceScan does not clear the
\* timer); startScan continues with setStatus('idle').
scanResolves ==
    /\ platform = "mobile"
    /\ screen.scan \in {"pending", "stopped"}
    /\ screen' = [screen EXCEPT !.status = "idle", !.scan = "none"]
    /\ UNCHANGED <<platform, calls, storeVars, engineVars>>

\* scanForDevices rejects with the scan callback's error; startScan's catch.
scanRejects ==
    /\ platform = "mobile"
    /\ screen.scan = "pending"
    /\ screen' = [screen EXCEPT !.status = "error", !.scan = "none"]
    /\ UNCHANGED <<platform, calls, storeVars, engineVars>>

\* stopScan; the button is rendered in status 'scanning'.
stopScan ==
    /\ platform = "mobile"
    /\ screen.status = "scanning"
    /\ screen' = [screen EXCEPT !.status = "idle",
                                !.scan = IF screen.scan = "pending" THEN "stopped"
                                         ELSE screen.scan]
    /\ UNCHANGED <<platform, calls, storeVars, engineVars>>

\* connectAndSync(device), up to await connect; the device list is rendered in
\* status 'idle'.
connectAndSync ==
    /\ platform = "mobile"
    /\ screen.status = "idle"
    /\ screen.devices
    /\ screen.pc = "none"
    /\ screen' = [screen EXCEPT !.status = "connecting", !.pc = "connect"]
    /\ UNCHANGED <<platform, calls, storeVars, engineVars>>

\* connectAndSync after connect resolved: setStatus('syncing'), syncData is called.
connectResolved ==
    /\ platform = "mobile"
    /\ screen.pc = "connect"
    /\ ble.connected
    /\ screen' = [screen EXCEPT !.status = "syncing", !.pc = "sync"]
    /\ UNCHANGED <<platform, calls, storeVars, engineVars>>

\* connectAndSync's catch after connect threw.
connectRejected ==
    /\ platform = "mobile"
    /\ screen.pc = "connect"
    /\ ~ble.connected
    /\ screen' = [screen EXCEPT !.status = "error", !.pc = "failed"]
    /\ UNCHANGED <<platform, calls, storeVars, engineVars>>

\* syncData's catch: monitor() or read() threw before the first wait.
syncDataThrows ==
    /\ platform = "mobile"
    /\ ble.pc = "idle"
    /\ ble.connected
    /\ ble' = [ble EXCEPT !.pc = "rejected", !.buffer = <<>>]
    /\ UNCHANGED <<platform, calls, screen, storeVars, settingsFile, state, sess, wire>>

\* Mutant: the status is set to 'complete' before the readings are saved.
syncResolvedCompleteFirst ==
    /\ platform = "mobile"
    /\ screen.pc = "sync"
    /\ ble.pc = "resolved"
    /\ screen' = [screen EXCEPT !.status = "complete",
                                !.pc = IF Len(ble.result) > 0 THEN "save" ELSE "done"]
    /\ UNCHANGED <<platform, calls, storeVars, engineVars>>

\* connectAndSync after syncData resolved: with readings, addReadings is
\* called; without, setStatus('complete').
syncResolved ==
    /\ platform = "mobile"
    /\ screen.pc = "sync"
    /\ ble.pc = "resolved"
    /\ screen' = IF Len(ble.result) > 0
                 THEN [screen EXCEPT !.pc = "save"]
                 ELSE [screen EXCEPT !.status = "complete", !.pc = "done"]
    /\ UNCHANGED <<platform, calls, storeVars, engineVars>>

\* connectAndSync's catch after syncData rejected.
syncRejected ==
    /\ platform = "mobile"
    /\ screen.pc = "sync"
    /\ ble.pc = "rejected"
    /\ screen' = [screen EXCEPT !.status = "error", !.pc = "failed"]
    /\ UNCHANGED <<platform, calls, storeVars, engineVars>>

\* connectAndSync after addReadings(readings) finished: setStatus('complete').
\* readings is the array syncData resolved with, which handleData still fills.
readingsSaved ==
    /\ platform = "mobile"
    /\ screen.pc = "save"
    /\ appData' = saveData(appData,
                    [appData EXCEPT !.readings = MergeMobile(appData.readings, ble.readings),
                                    !.lastSync = clock])
    /\ last' = [op |-> "addReadings",
                newCount |-> Len(UniqueNew(appData.readings, ble.readings)),
                total |-> Len(MergeMobile(appData.readings, ble.readings))]
    /\ screen' = [screen EXCEPT !.status = "complete", !.pc = "done"]
    /\ UNCHANGED <<platform, calls, dataFile, diskOk, clock, engineVars>>

\* reset ('Done'); the button is rendered in status 'complete' or 'error'.
reset ==
    /\ platform = "mobile"
    /\ screen.status \in {"complete", "error"}
    /\ screen' = [screen EXCEPT !.status = "idle", !.devices = FALSE]
    /\ UNCHANGED <<platform, calls, storeVars, engineVars>>

----------------------------------------------------------------------------
(* Statistics of the mobile app: PDF report (pdfExport) and dashboard *)

\* Math.round(p / q) for p >= 0 and q > 0.
Round(p, q) == (2 * p + q) \div (2 * q)

\* readings.filter(r => r.inr >= targetRangeMin && r.inr <= targetRangeMax).length
inRangeCount(readings, settings) ==
    Cardinality({i \in 1..Len(readings) :
                    /\ readings[i].inr >= settings.targetRangeMin
                    /\ readings[i].inr <= settings.targetRangeMax})

\* generateReportHTML: const ttr = ...
ttr(readings, settings) ==
    IF Len(readings) > 0
    THEN Round(inRangeCount(readings, settings) * 100, Len(readings))
    ELSE 0

\* DashboardScreen: const inRangePercent = ...
inRangePercent(readings, settings) ==
    IF Len(readings) > 0
    THEN Round(inRangeCount(readings, settings) * 100, Len(readings))
    ELSE 0

\* generateReportHTML(readings, settings): the 'Time in Range' figure of the report.
generateReportHTML ==
    /\ platform = "mobile"
    /\ last' = [op |-> "report",
                inRangeCount |-> inRangeCount(appData.readings, appData.settings),
                ttr |-> ttr(appData.readings, appData.settings)]
    /\ UNCHANGED <<platform, calls, screen, dataFile, appData, diskOk, clock, engineVars>>

\* DashboardScreen: the 'In Range' figure rendered from the loaded data.
DashboardScreen ==
    /\ platform = "mobile"
    /\ last' = [op |-> "dashboard",
                inRangeCount |-> inRangeCount(appData.readings, appData.settings),
                ttr |-> inRangePercent(appData.readings, appData.settings)]
    /\ UNCHANGED <<platform, calls, screen, dataFile, appData, diskOk, clock, engineVars>>

\* Stored reading lists for the statistics: sorted by timestamp (in hours),
\* INR 1.5, 2.0, 3.0 or 4.0.
ReportHours == {1, 2, 4}
ReportValues == {15, 20, 30, 40}
ReportReadings ==
    {rs \in SeqsUpTo({Reading(t, 0, "NRM", v, 300) : t \in ReportHours, v \in ReportValues},
                     Cardinality(ReportHours)) :
        \A i \in 1..(Len(rs) - 1) : rs[i].timestamp < rs[i + 1].timestamp}

----------------------------------------------------------------------------
(* Specifications *)

InitCommon ==
    /\ platform \in {"electron", "mobile"}
    /\ diskOk = TRUE
    /\ clock = 1
    /\ last = NoOp
    /\ state = InitialState
    /\ sess = [s \in Conns |-> NoSession]
    /\ wire = [d \in Devices |-> <<>>]
    /\ ble = NoBle
    /\ calls = [t \in Tasks |-> NoCall]
    /\ screen = NoScreen
    /\ appData = EmptyApp

\* Spec: one device session per installation, Electron (TCP) or mobile (BLE).
Init ==
    /\ InitCommon
    /\ settingsFile \in (IF platform = "electron" THEN SettingValues ELSE {"absent"})
    /\ dataFile \in (IF platform = "electron"
                     THEN {EmptyData,
                           [EmptyData EXCEPT !.readings = <<Reading(1, 1, "NRM", 35, 310)>>]}
                     ELSE {EmptyData})

Next ==
    \/ \E stream \in Streams : handleConnection("s1", stream)
    \/ \E n \in 1..Len(wire["s1"]) : OnData("s1", n)
    \/ OnClose("s1")
    \/ \E stream \in Streams, rx, tx \in BOOLEAN : bleConnect(stream, rx, tx)
    \/ syncDataStart
    \/ \E n \in 1..Len(wire["ble"]) : bleHandleData(n)
    \/ syncDataAfterWait
    \/ syncDataSecondCommand
    \/ syncDataRequest
    \/ syncDataResolve

Spec == Init /\ [][Next]_vars

\* SpecExtract: one session that delivers one ObservationBatch, in one append,
\* to an installation with an empty store.
InitExtract ==
    /\ InitCommon
    /\ settingsFile = "absent"
    /\ dataFile = EmptyData

NextExtract ==
    \/ \E stream \in ExtractBatches : handleConnection("s1", stream)
    \/ OnData("s1", Len(wire["s1"]))
    \/ OnClose("s1")
    \/ \E stream \in ExtractBatches : bleConnect(stream, TRUE, TRUE)
    \/ syncDataStart
    \/ bleHandleData(Len(wire["ble"]))
    \/ syncDataAfterWait
    \/ syncDataSecondCommand
    \/ syncDataRequest
    \/ syncDataResolve

SpecExtract == InitExtract /\ [][NextExtract]_vars

\* SpecStore: the store operations, each session reduced to the batch it hands
\* to finalizeTransfer when its socket closes.
SessionCloses(groups) ==
    /\ platform = "electron"
    /\ finalizeTransfer(<<ObsMessage(groups)>>)
    /\ UNCHANGED <<platform, calls, screen, appData, diskOk, clock, engineVars>>

InitStore ==
    /\ InitCommon
    /\ settingsFile = "absent"
    /\ dataFile = EmptyData

NextStore ==
    \/ \E groups \in CandidateGroups : SessionCloses(groups)
    \/ \E rs \in ImportedReadings :
          ImportDataElectron([EmptyData EXCEPT !.readings = rs, !.totalReadings = Len(rs)])
    \/ \E confirmed \in BOOLEAN : ClearDataElectron(confirmed)
    \/ \E groups \in CandidateGroups :
          addReadings(bleParseObservationsXml(ObsMessage(groups)))
    \/ \E rs \in ImportedReadings : importData(TRUE, rs)
    \/ importData(FALSE, <<>>)
    \/ clearReadings
    \/ \E settings \in {"absent", "true"} : SaveSettingsElectron(settings)
    \/ \E settings \in SettingsUpdates : updateSettings(settings)

SpecStore == InitStore /\ [][NextStore]_vars

\* fs.writeFileSync / AsyncStorage.setItem start or stop throwing.
DiskChanges ==
    /\ diskOk' = ~diskOk
    /\ UNCHANGED <<platform, calls, screen, dataFile, appData, clock, last, engineVars>>

\* SpecFault: the store operations on a disk whose writes may fail.
InitFault ==
    /\ platform \in {"electron", "mobile"}
    /\ diskOk \in BOOLEAN
    /\ clock = 1
    /\ last = NoOp
    /\ state = InitialState
    /\ sess = [s \in Conns |-> NoSession]
    /\ wire = [d \in Devices |-> <<>>]
    /\ ble = NoBle
    /\ calls = [t \in Tasks |-> NoCall]
    /\ screen = NoScreen
    /\ appData = EmptyApp
    /\ settingsFile = "absent"
    /\ dataFile = EmptyData

NextFault == NextStore \/ DiskChanges

SpecFault == InitFault /\ [][NextFault]_vars

\* SpecAsync: two calls of the mobile store's async functions in flight
\* together, on an empty store.
InitAsync ==
    /\ InitCommon
    /\ platform = "mobile"
    /\ settingsFile = "absent"
    /\ dataFile = EmptyData

NextAsync ==
    \/ \E t \in Tasks, groups \in CandidateGroups :
          addReadingsLoad(t, bleParseObservationsXml(ObsMessage(groups)))
    \/ \E t \in Tasks : addReadingsSave(t)
    \/ \E t \in Tasks, settings \in SettingsUpdates : updateSettingsLoad(t, settings)
    \/ \E t \in Tasks : updateSettingsSave(t)

SpecAsync == InitAsync /\ [][NextAsync]_vars

\* SpecTwo: two devices connect to the TCP server of one Electron
\* installation; their sockets' events interleave in any order.
HelloB == Message(Body("HEL", <<"PT2-2">>, <<>>, <<>>, <<>>))

TwoStreams ==
    { Hello \o ObsMessage(<<GroupA>>),
      HelloB \o ObsMessage(<<GroupB>>),
      ObsMessage(<<GroupB>>) }

InitTwo ==
    /\ InitCommon
    /\ platform = "electron"
    /\ settingsFile = "absent"
    /\ dataFile = EmptyData

NextTwo ==
    \/ \E s \in Conns, stream \in TwoStreams : handleConnection(s, stream)
    \/ \E s \in Conns : \E n \in 1..Len(wire[s]) : OnData(s, n)
    \/ \E s \in Conns : OnClose(s)

SpecTwo == InitTwo /\ [][NextTwo]_vars

\* SpecRead: merges and readers of the store; on the mobile store the merge is
\* a call of addReadings (t1) that may be in flight while a reader (t2) loads.
InitRead ==
    /\ InitCommon
    /\ settingsFile = "absent"
    /\ dataFile = EmptyData

NextRead ==
    \/ \E groups \in CandidateGroups : SessionCloses(groups)
    \/ \E t \in Tasks : GetReadings(t)
    \/ \E groups \in CandidateGroups :
          addReadingsLoad("t1", bleParseObservationsXml(ObsMessage(groups)))
    \/ addReadingsSave("t1")
    \/ loadData("t2")

SpecRead == InitRead /\ [][NextRead]_vars

\* SpecSettings: the renderer saves the acceptObservations setting while
\* devices connect, send two ObservationBatches and disconnect.
SettingsStreams == {ObsMessage(<<GroupA>>) \o ObsMessage(<<GroupB>>)}

InitSettings ==
    /\ InitCommon
    /\ platform = "electron"
    /\ settingsFile \in {"absent", "true"}
    /\ dataFile = EmptyData

NextSettings ==
    \/ \E s \in Conns, stream \in SettingsStreams : handleConnection(s, stream)
    \/ \E s \in Conns : \E n \in 1..Len(wire[s]) : OnData(s, n)
    \/ \E s \in Conns : OnClose(s)
    \/ \E settings \in {"true", "false"} : SaveSettingsElectron(settings)

SpecSettings == InitSettings /\ [][NextSettings]_vars

\* SpecOrder: one Electron session whose device sends its observations first
\* and the Hello and StatusReport afterwards.
OrderStreams ==
    { ObsMessage(<<GroupA>>) \o StatusReport \o Hello,
      ObsMessage(<<GroupA>>) \o Hello \o StatusReport,
      ObsMessage(<<GroupB>>) \o Hello \o EndOfExchange }

InitOrder ==
    /\ InitCommon
    /\ platform = "electron"
    /\ settingsFile \in {"absent", "true"}
    /\ dataFile = EmptyData

NextOrder ==
    \/ \E stream \in OrderStreams : handleConnection("s1", stream)
    \/ \E n \in 1..Len(wire["s1"]) : OnData("s1", n)
    \/ OnClose("s1")

SpecOrder == InitOrder /\ [][NextOrder]_vars

\* SpecScreen: the sync screen of the mobile app driving the BLE service.
ScreenStreams == {<<>>, ObsMessage(<<GroupA>>)}

InitScreen ==
    /\ InitCommon
    /\ platform = "mobile"
    /\ settingsFile = "absent"
    /\ dataFile = EmptyData

NextScreen ==
    \/ startScan
    \/ onDeviceFound
    \/ scanResolves
    \/ scanRejects
    \/ stopScan
    \/ connectAndSync
    \/ screen.pc = "connect" /\ \E stream \in ScreenStreams, rx, tx \in BOOLEAN :
                                   bleConnect(stream, rx, tx)
    \/ connectResolved
    \/ connectRejected
    \/ screen.pc = "sync" /\ syncDataStart
    \/ screen.pc = "sync" /\ syncDataThrows
    \/ \E n \in 1..Len(wire["ble"]) : bleHandleData(n)
    \/ syncDataAfterWait
    \/ syncDataSecondCommand
    \/ syncDataRequest
    \/ syncDataResolve
    \/ syncResolved
    \/ syncRejected
    \/ readingsSaved
    \/ reset

SpecScreen == InitScreen /\ [][NextScreen]_vars

\* SpecSync: one syncData call of the BLE service; the timers of its waits
\* fire (setTimeout), the device sends what it likes, or nothing.
SyncStreams == ScenarioStreams \cup {<<>>, ObsMessage(<<GroupA>>)}

InitSync == InitScreen

NextSync ==
    \/ \E stream \in SyncStreams, rx, tx \in BOOLEAN : bleConnect(stream, rx, tx)
    \/ syncDataStart
    \/ syncDataThrows
    \/ \E n \in 1..Len(wire["ble"]) : bleHandleData(n)
    \/ syncDataAfterWait
    \/ syncDataSecondCommand
    \/ syncDataRequest
    \/ syncDataResolve

SpecSync ==
    /\ InitSync
    /\ [][NextSync]_vars
    /\ WF_vars(syncDataAfterWait)
    /\ WF_vars(syncDataSecondCommand)
    /\ WF_vars(syncDataRequest)
    /\ WF_vars(syncDataResolve)

\* SpecReport: the statistics computed over a stored reading list.
InitReport ==
    /\ platform = "mobile"
    /\ diskOk = TRUE
    /\ clock = 1
    /\ last = NoOp
    /\ state = InitialState
    /\ sess = [s \in Conns |-> NoSession]
    /\ wire = [d \in Devices |-> <<>>]
    /\ ble = NoBle
    /\ calls = [t \in Tasks |-> NoCall]
    /\ screen = NoScreen
    /\ appData \in {[EmptyApp EXCEPT !.readings = rs] : rs \in ReportReadings}
    /\ settingsFile = "absent"
    /\ dataFile = EmptyData

NextReport ==
    \/ generateReportHTML
    \/ DashboardScreen

SpecReport == InitReport /\ [][NextReport]_vars

----------------------------------------------------------------------------
(* Claims about the reconciliation store, checked under SpecStore *)

\* The reading lists of the two stores, before and after a step.
Stored == IF platform = "electron" THEN dataFile.readings ELSE appData.readings
StoredNext == IF platform = "electron" THEN dataFile'.readings ELSE appData'.readings

\* r is in rs, up to the display sequence number (which a merge reassigns).
Present(r, rs) ==
    \E i \in 1..Len(rs) : [rs[i] EXCEPT !.sequence = 0] = [r EXCEPT !.sequence = 0]

DistinctTimestamps(rs) ==
    \A i, j \in 1..Len(rs) : i # j => rs[i].timestamp # rs[j].timestamp

SortedByTimestamp(rs) ==
    \A i, j \in 1..Len(rs) : i < j => rs[i].timestamp <= rs[j].timestamp

\* The step is a merge of a session's candidates (finalizeTransfer, addReadings).
SessionMergeStep == last'.op \in {"finalize", "addReadings"}

\* C1: every reading stored before a merge (Electron finalizeTransfer, mobile
\* addReadings) is still stored after it; holding for each merge, it holds
\* after any number of successive merges.
C1_MergePreservation ==
    [][SessionMergeStep => \A i \in 1..Len(Stored) : Present(Stored[i], StoredNext)]_vars

\* C1 witness: a finalize added new readings to a store that keeps an imported
\* reading (INR 3.5) next to a device reading (INR 2.5).
C1_Witness ==
    /\ last.op = "finalize"
    /\ last.newCount > 0
    /\ \E i, j \in 1..Len(dataFile.readings) :
          dataFile.readings[i].inr = 35 /\ dataFile.readings[j].inr = 25

\* C2 (as claimed): a merge into a store with pairwise distinct timestamps
\* leaves the timestamps pairwise distinct, for every candidate list.
C2_DistinctTimestampsKept ==
    [][SessionMergeStep /\ DistinctTimestamps(Stored) => DistinctTimestamps(StoredNext)]_vars

\* C3: for every store the program reaches and every candidate list, merging
\* the list a second time gives the same list of readings as merging it once
\* (members, order, sequence numbers) and adds zero new readings, in Electron
\* finalizeTransfer and in mobile addReadings.
C3_MergeIdempotent ==
    \A groups \in CandidateGroups :
        /\ LET c == parseObservationsXml(ObsMessage(groups))
               once == MergeElectron(dataFile.readings, c)
           IN  /\ MergeElectron(once, c) = once
               /\ Len(UniqueNew(once, c)) = 0
        /\ LET c == bleParseObservationsXml(ObsMessage(groups))
               once == MergeMobile(appData.readings, c)
           IN  /\ MergeMobile(once, c) = once
               /\ Len(UniqueNew(once, c)) = 0

\* C3 witness: a store to which a merge added two readings, next to readings it
\* already held.
C3_Witness ==
    /\ last.op \in {"finalize", "addReadings"}
    /\ last.newCount = 2
    /\ last.total > 2

\* C4: after an Electron finalizeTransfer the reading at position i of the
\* stored list has sequence i (so the sequences are exactly 1..N) and the list
\* is in ascending timestamp order.
C4_SequenceInvariant ==
    last.op = "finalize" =>
        /\ \A i \in 1..Len(dataFile.readings) : dataFile.readings[i].sequence = i
        /\ SortedByTimestamp(dataFile.readings)

\* C4 witness: a finalize renumbered a store holding an imported reading (whose
\* file gave it sequence 5) and a device reading (reported with sequence 7).
C4_Witness ==
    /\ last.op = "finalize"
    /\ Len(dataFile.readings) >= 3
    /\ \E i, j \in 1..Len(dataFile.readings) :
          /\ dataFile.readings[i].inr = 35 /\ dataFile.readings[j].inr = 25
          /\ dataFile.readings[i].timestamp > dataFile.readings[j].timestamp

\* C5: after a merge (finalizeTransfer, addReadings, importData) the stored list
\* is sorted ascending by timestamp.
C5_SortedAfterMerge ==
    last.op \in {"finalize", "addReadings", "importData"} => SortedByTimestamp(Stored)

\* C5 witness: a mobile import merged readings of two timestamps into a store
\* that already held device readings.
C5_Witness ==
    /\ last.op = "importData"
    /\ last.newCount > 0
    /\ \E i, j \in 1..Len(appData.readings) :
          /\ appData.readings[i].timestamp < appData.readings[j].timestamp
          /\ appData.readings[i].inr = 35 /\ appData.readings[j].inr = 25

----------------------------------------------------------------------------
(* Claims about the session engines, checked under Spec *)

Closing(s) == sess[s].phase = "open" /\ sess'[s].phase = "closed"

\* The observations a session has collected: the valid groups of the batches
\* it dispatched.
Collected(s) ==
    Flatten([i \in 1..Len(sess[s].rawObservations) |->
                parseObservationsXml(sess[s].rawObservations[i])])

KindsOf(log) == [i \in 1..Len(log) |-> log[i].kind]
Acks(out) == SelectSeq(out, LAMBDA m : m.kind = "ACK")
Requests(out) == SelectSeq(out, LAMBDA m : m.kind = "REQ")

\* C6: the data file changes only in a step in which a socket closes; such a
\* step is the session's only finalizeTransfer and stores every observation
\* collected so far, whatever was or was not received; an open session has
\* not merged.
C6_CloseIsSoleMergeTrigger ==
    [][/\ dataFile' # dataFile => \E s \in Conns : Closing(s)
       /\ \A s \in Conns :
             /\ Closing(s) =>
                   /\ sess'[s].merges = 1
                   /\ last'.op = "finalize"
                   /\ \A i \in 1..Len(Collected(s)) :
                         \E j \in 1..Len(dataFile'.readings) :
                            dataFile'.readings[j].timestamp = Collected(s)[i].timestamp
             /\ sess'[s].phase = "open" => sess'[s].merges = 0]_vars

\* C6 witness: a session closed without EOT.R01, with text still buffered, and
\* its observations were added to the store.
C6_Witness ==
    /\ sess["s1"].phase = "closed"
    /\ Len(sess["s1"].buffer) > 0
    /\ \A i \in 1..Len(sess["s1"].dispatched) : sess["s1"].dispatched[i].kind # "EOT"
    /\ last.op = "finalize"
    /\ last.newCount > 0

\* C7: in an Electron session the acknowledgment of an OBS.R01 is AA exactly
\* when the acceptObservations setting read at connection time is true.
C7_ObservationAckFollowsSetting ==
    \A s \in Conns : \A i \in 1..Len(sess[s].out) :
        sess[s].out[i].re = "OBS" =>
            /\ sess[s].out[i].kind = "ACK"
            /\ sess[s].out[i].type = "AA" <=> sess[s].cfg = "true"
            /\ sess[s].out[i].type \in {"AA", "AR"}

\* C7 witness: a batch was rejected under a setting that is truthy but not true.
C7_Witness ==
    /\ sess["s1"].cfg = "other"
    /\ \E i \in 1..Len(sess["s1"].out) :
          sess["s1"].out[i].re = "OBS" /\ sess["s1"].out[i].type = "AR"

\* The k-th acknowledgment answers the k-th dispatched message, with AA when
\* that message is a Hello, StatusReport or EndOfExchange.
OneAckPerDispatch(out, dispatched) ==
    /\ Len(Acks(out)) = Len(dispatched)
    /\ \A i \in 1..Len(dispatched) :
          /\ dispatched[i].kind \in {"HEL", "DST", "OBS", "EOT"}
          /\ Acks(out)[i].re = dispatched[i].kind
          /\ dispatched[i].kind # "OBS" => Acks(out)[i].type = "AA"

C9_AtMostOneRequest ==
    /\ \A s \in Conns :
          LET out == sess[s].out
              dst == {i \in 1..Len(sess[s].dispatched) : sess[s].dispatched[i].kind = "DST"}
          IN  /\ Len(Requests(out)) = IF dst = {} THEN 0 ELSE 1
              /\ \A i \in 1..Len(out) :
                    out[i].kind = "REQ" =>
                        /\ i > 1 /\ out[i - 1].kind = "ACK" /\ out[i - 1].re = "DST"
                        /\ \A j \in 1..(i - 2) : out[j].re # "DST"
    /\ Len(Requests(ble.out)) <= 1

\* C9 witness: two StatusReports were dispatched and one request was written.
C9_Witness ==
    /\ Cardinality({i \in 1..Len(sess["s1"].dispatched) :
                       sess["s1"].dispatched[i].kind = "DST"}) = 2
    /\ Len(Requests(sess["s1"].out)) = 1

\* C10 (as claimed): after a data event has been processed the buffer holds no
\* complete message, in either engine.
C10_BufferDrained ==
    \A k \in {"HEL", "DST", "OBS", "EOT"} :
        /\ \A s \in Conns : ~Includes(sess[s].buffer, k)
        /\ ~Includes(ble.buffer, k)

----------------------------------------------------------------------------
(* Claims about framing, checked under Spec *)

ProtocolKinds == {"HEL", "DST", "OBS", "EOT"}

\* m is the text of one complete message of kind k, and nothing else.
IsMessage(m, k) ==
    /\ Len(m) = 3
    /\ m[1].k = k /\ m[1].p = "body"
    /\ m[2] = End1(k) /\ m[3] = End2(k)

\* The step is a data event of session s; Chunk(s) is the text it appended and
\* NewDispatched(s), NewOut(s) what its handlers dispatched and wrote.
DataEvent(s) == sess[s].phase = "open" /\ sess'[s].recv # sess[s].recv
Chunk(s) == SubSeq(sess'[s].recv, Len(sess[s].recv) + 1, Len(sess'[s].recv))
NewDispatched(s) ==
    SubSeq(sess'[s].dispatched, Len(sess[s].dispatched) + 1, Len(sess'[s].dispatched))
NewOut(s) == SubSeq(sess'[s].out, Len(sess[s].out) + 1, Len(sess'[s].out))

\* C11 (as claimed): when one append to an empty buffer holds two complete
\* messages, two messages are dispatched, in stream order, each handler seeing
\* its own text only, and the acknowledgments are written in that order.
C11_DispatchInArrivalOrder ==
    [][\A s \in Conns : \A k1, k2 \in ProtocolKinds :
          (/\ DataEvent(s)
           /\ sess[s].buffer = <<>>
           /\ Len(Chunk(s)) = 6
           /\ IsMessage(SubSeq(Chunk(s), 1, 3), k1)
           /\ IsMessage(SubSeq(Chunk(s), 4, 6), k2))
          => /\ NewDispatched(s) = <<[kind |-> k1, text |-> SubSeq(Chunk(s), 1, 3)],
                                     [kind |-> k2, text |-> SubSeq(Chunk(s), 4, 6)]>>
             /\ KindsOf(Acks(NewOut(s))) = <<"ACK", "ACK">>
             /\ Acks(NewOut(s))[1].re = k1
             /\ Acks(NewOut(s))[2].re = k2]_vars

\* What the handlers do with text m delivered in one append to a new session
\* (Electron, with the session's accept/reject setting) or a new sync (BLE).
InOneAppend(s, m) ==
    processMessages([buffer |-> m, controlId |-> 20000, totalAvailable |-> 0,
                     sentRequest |-> FALSE, rawObservations |-> <<>>,
                     acceptObservations |-> sess[s].acceptObservations,
                     out |-> <<>>, dispatched |-> <<>>, errors |-> 0,
                     observationsReceived |-> 0, deviceInfo |-> NoDevice])

bleInOneAppend(m) == bleProcessMessages([NoBle EXCEPT !.tx = ble.tx, !.buffer = m])

\* A write without its control identifier.
Reply(m) == [kind |-> m.kind, type |-> m.type, re |-> m.re]
Replies(out) == [i \in 1..Len(out) |-> Reply(out[i])]

\* C12: when the stream of a session is one complete message, however it is cut
\* into appends (also inside the end-tag), nothing is dispatched or written
\* before the append that completes the end-tag, and after it exactly one
\* message has been dispatched, with the text and the replies of a delivery in
\* one append; in both engines.
C12_ChunkingIndependence ==
    \A k \in ProtocolKinds :
        /\ \A s \in Conns :
              IsMessage(sess[s].recv \o wire[s], k) =>
                 IF wire[s] # <<>>
                 THEN /\ sess[s].dispatched = <<>>
                      /\ sess[s].out = <<>>
                      /\ sess[s].buffer = sess[s].recv
                 ELSE /\ sess[s].dispatched = <<[kind |-> k, text |-> sess[s].recv]>>
                      /\ sess[s].dispatched = InOneAppend(s, sess[s].recv).dispatched
                      /\ sess[s].out = InOneAppend(s, sess[s].recv).out
                      /\ sess[s].rawObservations =
                            InOneAppend(s, sess[s].recv).rawObservations
                      /\ sess[s].buffer = <<>>
        /\ IsMessage(ble.recv \o wire["ble"], k) =>
              IF wire["ble"] # <<>>
              THEN /\ ble.dispatched = <<>>
                   /\ Acks(ble.out) = <<>>
                   /\ ble.buffer = ble.recv
              ELSE /\ ble.dispatched = <<[kind |-> k, text |-> ble.recv]>>
                   /\ Replies(Acks(ble.out)) = Replies(bleInOneAppend(ble.recv).out)
                   /\ ble.readings = bleInOneAppend(ble.recv).readings
                   /\ ble.buffer = <<>>

\* C12 witness: an ObservationBatch is cut inside its end-tag; the appends so
\* far were processed and the engine holds the text, the second half of the
\* end-tag being still to come.
C12_Witness ==
    /\ IsMessage(sess["s1"].recv \o wire["s1"], "OBS")
    /\ wire["s1"] = <<End2("OBS")>>
    /\ sess["s1"].buffer = sess["s1"].recv
    /\ sess["s1"].phase = "open"

\* The texts handed to the handlers, in dispatch order.
DispatchedText(dispatched) == Flatten([i \in 1..Len(dispatched) |-> dispatched[i].text])

\* No text handed to a handler holds text of a message of another protocol kind.
OwnKindOnly(dispatched) ==
    \A i \in 1..Len(dispatched) : \A j \in 1..Len(dispatched[i].text) :
        dispatched[i].text[j].k \in {dispatched[i].kind, "ESC"}

\* C13 (as claimed, for the four protocol kinds): the text received is the text
\* handed to the handlers followed by the buffer, and the text handed to a
\* handler is text of a message of its own kind: consuming a message discards
\* no text of a message of another kind.
C13_BufferNeverLosesBytes ==
    /\ \A s \in Conns :
          /\ DispatchedText(sess[s].dispatched) \o sess[s].buffer = sess[s].recv
          /\ OwnKindOnly(sess[s].dispatched)
    /\ DispatchedText(ble.dispatched) \o ble.buffer = ble.recv
    /\ OwnKindOnly(ble.dispatched)

\* C14: a data event after which the buffer holds a complete Escape message and
\* no complete message of a protocol kind writes nothing and leaves the
\* control-id counter, the request-sent flag, the total-available count and the
\* collected observations as they were; it is notified as an error and the
\* text stays in the buffer.
C14_EscapeChangesNothing ==
    [][\A s \in Conns :
          (/\ DataEvent(s)
           /\ Includes(sess[s].buffer \o Chunk(s), "ESC")
           /\ \A k \in ProtocolKinds : ~Includes(sess[s].buffer \o Chunk(s), k))
          => /\ sess'[s].out = sess[s].out
             /\ sess'[s].dispatched = sess[s].dispatched
             /\ sess'[s].controlId = sess[s].controlId
             /\ sess'[s].sentRequest = sess[s].sentRequest
             /\ sess'[s].totalAvailable = sess[s].totalAvailable
             /\ sess'[s].rawObservations = sess[s].rawObservations
             /\ sess'[s].errors = sess[s].errors + 1
             /\ sess'[s].buffer = sess[s].buffer \o Chunk(s)
             /\ state' = state
             /\ dataFile' = dataFile]_vars

\* C14 witness: the session has received an Escape message and nothing else,
\* and the event was notified.
C14_Witness ==
    /\ IsMessage(sess["s1"].recv, "ESC")
    /\ sess["s1"].errors >= 1
    /\ sess["s1"].out = <<>>
    /\ sess["s1"].controlId = 20000

\* C15: in an Electron session the k-th outbound message, Acknowledge or
\* Request, carries control identifier 20000 + k: the identifiers are strictly
\* increasing in write order, none reused or skipped.
C15_ControlIdsIncrease ==
    \A s \in Conns :
        /\ sess[s].controlId = 20000 + Len(sess[s].out)
        /\ \A i \in 1..Len(sess[s].out) : sess[s].out[i].id = 20000 + i

\* C15 witness: a session wrote four acknowledgments and a request.
C15_Witness ==
    /\ Len(sess["s1"].out) = 5
    /\ Len(Requests(sess["s1"].out)) = 1
    /\ sess["s1"].out[5].id = 20005

----------------------------------------------------------------------------
(* Claims about the observation extractor, checked under SpecExtract *)

\* The group has a timestamp and positive numbers as primary and secondary value.
Accepted(g) ==
    /\ g.dttm # <<>>
    /\ g.inr # <<>> /\ g.inr[1].num /\ g.inr[1].v > 0
    /\ g.pt # <<>> /\ g.pt[1].num /\ g.pt[1].v > 0

\* The accepted groups of the batches, in message order, as (timestamp, primary
\* value, secondary value); and the same of a list of readings.
AcceptedOf(batches) ==
    LET kept == SelectSeq(Flatten([i \in 1..Len(batches) |-> SvcGroups(batches[i])]),
                          Accepted)
    IN  [j \in 1..Len(kept) |-> <<kept[j].dttm[1], kept[j].inr[1].v, kept[j].pt[1].v>>]

ValuesOf(readings) ==
    [j \in 1..Len(readings) |->
        <<readings[j].timestamp, readings[j].inr, readings[j].pt_seconds>>]

ObsTexts(dispatched) ==
    LET obs == SelectSeq(dispatched, LAMBDA d : d.kind = "OBS")
    IN  [i \in 1..Len(obs) |-> obs[i].text]

\* C16: the extractor's output is the accepted groups of the batch, in message
\* order, and no others: in the Electron engine for every collected batch, and
\* so the readings a closed session added to the empty store are the accepted
\* groups; in the BLE engine for the readings of the sync.
C16_ExtractionAcceptsExactlyValidGroups ==
    /\ \A s \in Conns :
          /\ \A i \in 1..Len(sess[s].rawObservations) :
                ValuesOf(parseObservationsXml(sess[s].rawObservations[i]))
                    = AcceptedOf(<<sess[s].rawObservations[i]>>)
          /\ sess[s].phase = "closed" =>
                /\ last.newCount = Len(AcceptedOf(sess[s].rawObservations))
                /\ Range(ValuesOf(dataFile.readings))
                      = Range(AcceptedOf(sess[s].rawObservations))
    /\ ValuesOf(ble.readings) = AcceptedOf(ObsTexts(ble.dispatched))

\* C16 witness: a session closed after a batch of a well-formed group and a
\* group whose secondary value is zero or negative, and one reading was stored.
C16_Witness ==
    /\ sess["s1"].phase = "closed"
    /\ Len(sess["s1"].rawObservations) = 1
    /\ \E g \in Range(SvcGroups(sess["s1"].rawObservations[1])) :
          g.pt # <<>> /\ g.pt[1].num /\ g.pt[1].v <= 0
    /\ Len(SvcGroups(sess["s1"].rawObservations[1])) = 2
    /\ Len(dataFile.readings) = 1

----------------------------------------------------------------------------
(* Claims about stored readings and sessions, checked under Spec *)

\* C17 (as claimed): every reading the extractor produces, and so every stored
\* reading, has one of the four known status symbols.
C17_StatusNormalized ==
    /\ \A i \in 1..Len(ble.readings) : ble.readings[i].status \in KnownStatus
    /\ \A i \in 1..Len(dataFile.readings) : dataFile.readings[i].status \in KnownStatus
    /\ \A i \in 1..Len(appData.readings) : appData.readings[i].status \in KnownStatus

\* The session of the end-to-end scenario: Hello, StatusReport (2 available),
\* one batch of two valid groups and a malformed one, EndOfExchange.
Scenario ==
    Hello \o StatusReport \o ObsMessage(<<GroupA, GroupB, GroupMalformed>>) \o EndOfExchange

ScenarioReplies(accept) ==
    << [kind |-> "ACK", type |-> "AA", re |-> "HEL"],
       [kind |-> "ACK", type |-> "AA", re |-> "DST"],
       [kind |-> "REQ", type |-> "ROBS", re |-> "DST"],
       [kind |-> "ACK", type |-> IF accept THEN "AA" ELSE "AR", re |-> "OBS"],
       [kind |-> "ACK", type |-> "AA", re |-> "EOT"] >>

\* C18: when the socket closes after the whole scenario was received, however
\* it was cut into appends, with an empty store, the session has written an
\* Acknowledge for Hello, an Acknowledge and one Request for StatusReport, one
\* Acknowledge for the batch, AA exactly when the setting is true, and an
\* Acknowledge for EndOfExchange, and the close stores exactly 2 readings.
C18_EndToEndScenario ==
    [][\A s \in Conns :
          (/\ Closing(s)
           /\ sess[s].recv = Scenario
           /\ dataFile.readings = <<>>)
          => /\ Replies(sess[s].out) = ScenarioReplies(sess[s].cfg = "true")
             /\ KindsOf(sess[s].dispatched) = <<"HEL", "DST", "OBS", "EOT">>
             /\ sess[s].totalAvailable = 2
             /\ Len(dataFile'.readings) = 2
             /\ last'.newCount = 2
             /\ last'.total = 2
             /\ dataFile'.readings[1].timestamp = 1
             /\ dataFile'.readings[2].timestamp = 2
             /\ dataFile'.device.serial = "PT2-1"]_vars

\* C18 witness: the scenario ran to its close under the accept setting and the
\* store holds the two readings.
C18_Witness ==
    /\ sess["s1"].phase = "closed"
    /\ sess["s1"].recv = Scenario
    /\ sess["s1"].cfg = "true"
    /\ last.op = "finalize"
    /\ last.newCount = 2
    /\ Len(dataFile.readings) = 2

----------------------------------------------------------------------------
(* Claims about persistence, checked under SpecFault and SpecStore *)

\* C19 (as claimed): a merge is reported as completed ('transfer-complete' in
\* Electron, the value addReadings returns in the mobile store) only with
\* readings that were made durable: the total it reports is the number of
\* readings in the store after the step, also when the write failed.
C19_WriteFailureSurfaced ==
    [][last'.op \in {"finalize", "addReadings"} => last'.total = Len(StoredNext)]_vars

\* C20 (as claimed): a step that is not a confirmed clear keeps every stored
\* reading: finalizeTransfer, import-data and save-settings in Electron,
\* addReadings, importData and updateSettings in the mobile store.
C20_RemovedOnlyByClear ==
    [][last'.op # "clear" => \A i \in 1..Len(Stored) : Present(Stored[i], StoredNext)]_vars

----------------------------------------------------------------------------
(* Claims about concurrent sessions and concurrent store calls *)

\* The step is an event (connect, data or close) of session t.
EventOf(t) == sess'[t] # sess[t]

\* C21 (as claimed): while session s is open, an event of the other session
\* leaves everything observed for s as it was: its buffer, its control-id
\* counter, the progress count, the device identity and the connected and
\* in-progress flags.
C21_SessionIsolation ==
    [][\A s \in Conns, t \in Conns :
          (s # t /\ sess[s].phase = "open" /\ EventOf(t)) =>
             /\ sess'[s].buffer = sess[s].buffer
             /\ sess'[s].controlId = sess[s].controlId
             /\ state'.observationsReceived = state.observationsReceived
             /\ state'.deviceInfo = state.deviceInfo
             /\ state'.deviceConnected = state.deviceConnected
             /\ state'.transferInProgress = state.transferInProgress]_vars

\* A call has returned.
Returned(t) == calls[t].pc = "done"

\* The timestamps of a reading list.
TimestampsOf(rs) == {rs[i].timestamp : i \in 1..Len(rs)}

\* C22 (as claimed): once both store calls have returned, the store holds
\* every reading a merge added and every reading that was stored when a call
\* started; no interleaving of the two calls loses one.
C22_NoLostUpdate ==
    (\A t \in Tasks : Returned(t)) =>
        \A t \in Tasks :
            /\ TimestampsOf(calls[t].data.readings) \subseteq TimestampsOf(appData.readings)
            /\ calls[t].op = "addReadings" =>
                  TimestampsOf(calls[t].arg) \subseteq TimestampsOf(appData.readings)

\* The identity carried by the last Hello a session dispatched.
OwnHello(s) ==
    LET hellos == SelectSeq(sess[s].dispatched, LAMBDA d : d.kind = "HEL")
    IN  hellos[Len(hellos)].text

HasOwnHello(s) == \E i \in 1..Len(sess[s].dispatched) : sess[s].dispatched[i].kind = "HEL"

\* C23 (as claimed): when a session that received a Hello finalizes, the
\* stored device serial is the one of that session's own Hello and lastSync is
\* the time of this finalize.
C23_OwnIdentityPersisted ==
    [][\A s \in Conns :
          (Closing(s) /\ HasOwnHello(s)) =>
             /\ <<dataFile'.device.serial>> = FirstAttr(OwnHello(s), "serial")
             /\ dataFile'.lastSync = clock]_vars

----------------------------------------------------------------------------
(* Claims about the time-in-range statistic, checked under SpecReport *)

\* A figure has been computed from the stored readings.
Reported == last.op \in {"report", "dashboard"}

\* C24 (as claimed): with fewer than two stored readings the reported
\* time-in-range is not a percentage: it is shown as unavailable, never as 0
\* or 100.
C24_UnavailableBelowTwoReadings ==
    (Reported /\ Len(appData.readings) < 2) => last.ttr \notin 0..100

Min(a, b) == IF a <= b THEN a ELSE b
Max(a, b) == IF a >= b THEN a ELSE b

\* The time a straight line from reading a to reading b spends inside
\* [lo, hi], as a fraction <<numerator, denominator>> of hours.
SegmentInRange(a, b, lo, hi) ==
    LET dt == b.timestamp - a.timestamp
        low == Min(a.inr, b.inr)
        high == Max(a.inr, b.inr)
        overlap == Max(0, Min(high, hi) - Max(low, lo))
    IN  IF a.inr = b.inr
        THEN <<IF lo <= a.inr /\ a.inr <= hi THEN dt ELSE 0, 1>>
        ELSE <<dt * overlap, high - low>>

\* The in-range time of the first n segments of rs, as a fraction.
RECURSIVE InRangeTime(_, _, _, _)
InRangeTime(rs, n, lo, hi) ==
    IF n = 0 THEN <<0, 1>>
    ELSE LET f == InRangeTime(rs, n - 1, lo, hi)
             g == SegmentInRange(rs[n], rs[n + 1], lo, hi)
         IN  <<f[1] * g[2] + g[1] * f[2], f[2] * g[2]>>

\* Interpolated in-range time / total time * 100, rounded.
InterpolatedPercent(rs, settings) ==
    LET f == InRangeTime(rs, Len(rs) - 1, settings.targetRangeMin, settings.targetRangeMax)
        total == rs[Len(rs)].timestamp - rs[1].timestamp
    IN  Round(100 * f[1], f[2] * total)

\* C25 (as claimed): for a sorted list of at least two readings the reported
\* time-in-range is the interpolated in-range time over the total time, times
\* 100.
C25_InterpolatedTimeInRange ==
    (Reported /\ Len(appData.readings) >= 2) =>
        last.ttr = InterpolatedPercent(appData.readings, appData.settings)

----------------------------------------------------------------------------
(* Claims about the order of the engine's writes, checked under Spec *)

\* The write at position i of a log answers the first StatusReport of its session.
FirstDstReply(out, i) == out[i].re = "DST" /\ \A j \in 1..(i - 1) : out[j].re # "DST"

\* C26 (as claimed): the first StatusReport of a session is answered with the
\* Request first and the Acknowledge(accept) second, the Request carrying the
\* smaller control identifier.
C26_RequestBeforeAck ==
    \A s \in Conns :
        LET out == sess[s].out
        IN  \A i \in 1..Len(out) :
                FirstDstReply(out, i) =>
                    /\ out[i].kind = "REQ"
                    /\ i < Len(out)
                    /\ out[i + 1].kind = "ACK" /\ out[i + 1].type = "AA"
                    /\ out[i + 1].re = "DST"
                    /\ out[i].id < out[i + 1].id

\* C26 (amended): in the Electron engine the first StatusReport of a session is
\* answered with the Acknowledge(accept) first and the Request second, the
\* Request's control identifier being the Acknowledge's plus one; a Request is
\* written nowhere else.
C26_AckBeforeRequest ==
    \A s \in Conns :
        LET out == sess[s].out
        IN  /\ \A i \in 1..Len(out) :
                  FirstDstReply(out, i) =>
                      /\ out[i].kind = "ACK" /\ out[i].type = "AA"
                      /\ i < Len(out)
                      /\ out[i + 1].kind = "REQ" /\ out[i + 1].re = "DST"
                      /\ out[i + 1].id = out[i].id + 1
            /\ \A i \in 1..Len(out) :
                  out[i].kind = "REQ" => (i > 1 /\ FirstDstReply(out, i - 1))

\* C26 witness: a StatusReport arrived after a Hello; the acknowledgment of the
\* StatusReport carries 20002 and the request 20003.
C26_Witness ==
    /\ KindsOf(sess["s1"].dispatched) = <<"HEL", "DST">>
    /\ KindsOf(sess["s1"].out) = <<"ACK", "ACK", "REQ">>
    /\ sess["s1"].out[2].id = 20002
    /\ sess["s1"].out[3].id = 20003

----------------------------------------------------------------------------
(* Claims about framing, checked under Spec *)

\* The session's context after the stream has arrived one complete message
\* per append.
RECURSIVE MessageByMessage(_, _)
MessageByMessage(c, stream) ==
    IF Len(stream) < 3 THEN c
    ELSE MessageByMessage(processMessages([c EXCEPT !.buffer = c.buffer \o SubSeq(stream, 1, 3)]),
                          SubSeq(stream, 4, Len(stream)))

\* C27 (as claimed): when a connection has closed after its whole stream of
\* complete messages arrived, the outbound messages (kinds, acknowledgment
\* types, control identifiers) and the collected observations are those of
\* the same stream arriving one message per append, however the stream was
\* cut into appends.
C27_ChunkingIndependenceOfStreams ==
    \A s \in Conns :
        (sess[s].phase = "closed" /\ wire[s] = <<>>) =>
            LET ref == MessageByMessage(InOneAppend(s, <<>>), sess[s].recv)
            IN  /\ sess[s].out = ref.out
                /\ sess[s].rawObservations = ref.rawObservations

\* A text holds the end-tag of some message kind.
HoldsEndTag(text) == \E k \in Kinds : IndexOfEnd(text, k) # 0

\* The step is a data event of the BLE engine, and the text it appended.
bleDataEvent == ble'.recv # ble.recv
bleChunk == SubSeq(ble'.recv, Len(ble.recv) + 1, Len(ble'.recv))

\* C28: a data event after which the buffer holds no end-tag of any kind
\* writes no outbound message, dispatches nothing, collects no observation, and
\* changes the buffer only by appending the received text; in both engines.
C28_UnterminatedNeverDispatched ==
    [][/\ \A s \in Conns :
             (DataEvent(s) /\ ~HoldsEndTag(sess[s].buffer \o Chunk(s))) =>
                /\ sess'[s].out = sess[s].out
                /\ sess'[s].dispatched = sess[s].dispatched
                /\ sess'[s].rawObservations = sess[s].rawObservations
                /\ state'.observationsReceived = state.observationsReceived
                /\ sess'[s].buffer = sess[s].buffer \o Chunk(s)
       /\ (bleDataEvent /\ ~HoldsEndTag(ble.buffer \o bleChunk)) =>
             /\ ble'.out = ble.out
             /\ ble'.dispatched = ble.dispatched
             /\ ble'.readings = ble.readings
             /\ ble'.buffer = ble.buffer \o bleChunk]_vars

\* C28 witness: the body of a StatusReport and the first half of its end-tag
\* have arrived; the engine holds them and has written nothing.
C28_Witness ==
    /\ sess["s1"].phase = "open"
    /\ sess["s1"].recv = <<StatusReport[1], StatusReport[2]>>
    /\ sess["s1"].buffer = sess["s1"].recv
    /\ sess["s1"].out = <<>>
    /\ sess["s1"].dispatched = <<>>

----------------------------------------------------------------------------
(* Claims about the snapshot and the notifications, checked under Spec *)

\* C29: the snapshot written when a session finalizes has a reading count
\* equal to the length of its reading list, and the 'transfer-complete'
\* notification satisfies totalReadings = readings stored before + newReadings,
\* newReadings being the number of candidates whose timestamp was not stored.
C29_SnapshotCounts ==
    [][\A s \in Conns :
          Closing(s) =>
             /\ dataFile'.totalReadings = Len(dataFile'.readings)
             /\ last'.op = "finalize"
             /\ last'.total = Len(dataFile'.readings)
             /\ last'.total = Len(dataFile.readings) + last'.newCount
             /\ last'.newCount =
                   Cardinality({i \in 1..Len(Collected(s)) :
                       Collected(s)[i].timestamp \notin TimestampsOf(dataFile.readings)})]_vars

\* C29 witness: a session that collected two observations, one of them with a
\* stored timestamp, has finalized on a store of one reading: one new, two in
\* total.
C29_Witness ==
    /\ sess["s1"].phase = "closed"
    /\ Len(Collected("s1")) = 2
    /\ last = [op |-> "finalize", newCount |-> 1, total |-> 2]
    /\ dataFile.totalReadings = 2
    /\ Len(dataFile.readings) = 2

\* C30 (as claimed): the data event that completes an Escape message sends
\* one 'error' notification, and a data event whose text holds nothing of an
\* Escape message sends none.
C30_OneErrorNotificationPerEscape ==
    [][\A s \in Conns :
          DataEvent(s) =>
             /\ (~Includes(sess[s].buffer, "ESC") /\ Includes(sess[s].buffer \o Chunk(s), "ESC"))
                    => sess'[s].errors = sess[s].errors + 1
             /\ (\A i \in 1..Len(Chunk(s)) : Chunk(s)[i].k # "ESC")
                    => sess'[s].errors = sess[s].errors]_vars

----------------------------------------------------------------------------
(* Claims about readers of the store, checked under SpecRead *)

\* A reader holds a snapshot it loaded.
Reader(t) == calls[t].op \in {"get-readings", "loadData"}

\* A reading list as a complete merge leaves it: sorted by timestamp and, in
\* the data file, numbered 1..n.
WholeMerge(rs) ==
    /\ SortedByTimestamp(rs)
    /\ platform = "electron" => \A i \in 1..Len(rs) : rs[i].sequence = i

\* C31: every snapshot a reader has loaded is a complete merge result (sorted
\* and, in the data file, renumbered, with a matching count), never an
\* appended-but-unsorted or partially renumbered list; a load returns the
\* stored value, and a merge takes the store in one step from the list before
\* it to the complete merged list.
C31_ReadersSeeWholeMerges ==
    /\ [](\A t \in Tasks :
            Reader(t) =>
               /\ WholeMerge(calls[t].data.readings)
               /\ platform = "electron" =>
                     \/ calls[t].data = EmptyData
                     \/ calls[t].data.totalReadings = Len(calls[t].data.readings))
    /\ [][/\ \A t \in Tasks :
               (calls'[t] # calls[t] /\ calls'[t].op \in {"get-readings", "loadData"}) =>
                   calls'[t].data = (IF platform = "electron" THEN dataFile ELSE appData)
          /\ \A t \in Tasks :
               (calls[t].pc = "loaded" /\ calls'[t].pc = "done") =>
                   appData'.readings = MergeMobile(calls[t].data.readings, calls[t].arg)
          /\ dataFile' # dataFile =>
               /\ WholeMerge(dataFile'.readings)
               /\ Len(dataFile'.readings) = Len(dataFile.readings) + last'.newCount]_vars

\* C31 witness: one reader loaded the data file between two merges and holds
\* the one-reading list, another loaded it after the second merge and holds
\* the sorted, renumbered two-reading list that is now stored.
C31_Witness ==
    /\ platform = "electron"
    /\ Reader("t1") /\ Reader("t2")
    /\ Len(calls["t1"].data.readings) = 1
    /\ Len(calls["t2"].data.readings) = 2
    /\ calls["t2"].data = dataFile
    /\ dataFile.readings[1].sequence = 1 /\ dataFile.readings[2].sequence = 2

----------------------------------------------------------------------------
(* Claims about the BLE engine and the handshake, checked under Spec *)

\* C32: every Acknowledge the BLE engine writes in response to an
\* ObservationBatch has type reject (AR), and every Acknowledge of type accept
\* (AA) answers a Hello, a StatusReport or an EndOfExchange.
C32_BleNeverAcceptsObservations ==
    \A i \in 1..Len(ble.out) :
        ble.out[i].kind = "ACK" =>
            /\ ble.out[i].re = "OBS" => ble.out[i].type = "AR"
            /\ ble.out[i].type = "AA" => ble.out[i].re \in {"HEL", "DST", "EOT"}
            /\ ble.out[i].re \in {"HEL", "DST", "EOT"} => ble.out[i].type = "AA"

\* C32 witness: the BLE engine has answered an ObservationBatch with reject
\* and an EndOfExchange with accept.
C32_Witness ==
    /\ \E i \in 1..Len(ble.out) : ble.out[i].re = "OBS" /\ ble.out[i].type = "AR"
    /\ \E i \in 1..Len(ble.out) : ble.out[i].re = "EOT" /\ ble.out[i].type = "AA"
    /\ Len(ble.readings) > 0

\* The session has dispatched a message of one of the kinds.
HasDispatched(s, kinds) ==
    \E i \in 1..Len(sess[s].dispatched) : sess[s].dispatched[i].kind \in kinds

\* C33 (as claimed): the Electron engine does not enforce the handshake order.  A data
\* event that completes an ObservationBatch, and no Hello or StatusReport,
\* in a session that has dispatched neither, dispatches, collects and
\* acknowledges the batch; a data event that completes a Hello or a
\* StatusReport after an ObservationBatch was dispatched acknowledges it with
\* accept; and on close the valid readings of every collected batch are stored.
C33_NoHandshakeOrder ==
    [][\A s \in Conns :
          /\ ( /\ DataEvent(s)
               /\ ~HasDispatched(s, {"HEL", "DST"})
               /\ Includes(sess[s].buffer \o Chunk(s), "OBS")
               /\ ~Includes(sess[s].buffer \o Chunk(s), "HEL")
               /\ ~Includes(sess[s].buffer \o Chunk(s), "DST") ) =>
                  /\ NewDispatched(s) # <<>> /\ NewDispatched(s)[1].kind = "OBS"
                  /\ NewOut(s)[1].kind = "ACK" /\ NewOut(s)[1].re = "OBS"
                  /\ Len(sess'[s].rawObservations) = Len(sess[s].rawObservations) + 1
          /\ \A k \in {"HEL", "DST"} :
                ( /\ DataEvent(s)
                  /\ HasDispatched(s, {"OBS"})
                  /\ Includes(sess[s].buffer \o Chunk(s), k) ) =>
                     \E i \in 1..Len(NewOut(s)) :
                        /\ NewOut(s)[i].kind = "ACK" /\ NewOut(s)[i].re = k
                        /\ NewOut(s)[i].type = "AA"
          /\ Closing(s) =>
                \A i \in 1..Len(Collected(s)) :
                    Collected(s)[i].timestamp \in TimestampsOf(dataFile'.readings)]_vars

----------------------------------------------------------------------------
(* Claims about settings and the store's other operations *)

\* C34: the accept/reject policy of an Electron session is the one of the
\* settings file when the connection was accepted; a save-settings call
\* changes no session, the policy of an open session never changes, and every
\* ObservationBatch of a session is acknowledged by the policy the session
\* was accepted with, whatever the settings file holds by then.
C34_PolicyFixedAtAccept ==
    [][\A s \in Conns :
          /\ settingsFile' # settingsFile => sess' = sess
          /\ (sess[s].phase = "none" /\ sess'[s].phase = "open") =>
                /\ sess'[s].cfg = settingsFile
                /\ sess'[s].acceptObservations = (settingsFile = "true")
          /\ (sess[s].phase = "open" /\ sess'[s].phase = "open") =>
                sess'[s].acceptObservations = sess[s].acceptObservations
          /\ DataEvent(s) =>
                \A i \in 1..Len(NewOut(s)) :
                    NewOut(s)[i].re = "OBS" =>
                        NewOut(s)[i].type = IF sess[s].cfg = "true" THEN "AA" ELSE "AR"]_vars

\* C34 witness: the setting was switched on while session s1, accepted without
\* it, was open; s1 has rejected both its batches, and s2, accepted after the
\* change, has accepted its first.
C34_Witness ==
    /\ settingsFile = "true"
    /\ sess["s1"].phase = "open" /\ sess["s1"].cfg = "absent"
    /\ [i \in 1..Len(sess["s1"].out) |-> sess["s1"].out[i].type] = <<"AR", "AR">>
    /\ sess["s2"].phase = "open" /\ sess["s2"].cfg = "true"
    /\ [i \in 1..Len(sess["s2"].out) |-> sess["s2"].out[i].type] = <<"AA">>

\* C35: a cancelled clear-data dialog leaves the data file as it is and a
\* confirmed one empties the reading list; the mobile clearReadings empties
\* the reading list and resets lastSync; none of them changes the stored
\* settings.
C35_ClearGatedAndScoped ==
    [][/\ last'.op = "cancel" =>
             /\ dataFile' = dataFile
             /\ settingsFile' = settingsFile
       /\ (last'.op = "clear" /\ platform = "electron") =>
             /\ dataFile'.readings = <<>>
             /\ settingsFile' = settingsFile
       /\ (last'.op = "clear" /\ platform = "mobile") =>
             /\ appData'.readings = <<>>
             /\ appData'.lastSync = 0
             /\ appData'.settings = appData.settings]_vars

\* C35 witness: the clear-data dialog was cancelled on a data file of two
\* readings and a saved setting: both are still there.
C35_Witness ==
    /\ platform = "electron"
    /\ last.op = "cancel"
    /\ Len(dataFile.readings) = 2
    /\ settingsFile = "true"

\* C36: a mobile import of a JSON text without a readings array leaves the
\* store unchanged; any other import keeps every stored reading as it was,
\* adds only readings whose timestamp was not stored (as many as it reports),
\* and leaves the list sorted ascending by timestamp.
C36_ImportMergesOrFails ==
    [][/\ last'.op = "importInvalid" => appData' = appData
       /\ last'.op = "importData" =>
             /\ \A i \in 1..Len(appData.readings) :
                   appData.readings[i] \in Range(appData'.readings)
             /\ \A j \in 1..Len(appData'.readings) :
                   \/ appData'.readings[j] \in Range(appData.readings)
                   \/ appData'.readings[j].timestamp \notin TimestampsOf(appData.readings)
             /\ Len(appData'.readings) = Len(appData.readings) + last'.newCount
             /\ SortedByTimestamp(appData'.readings)]_vars

\* C36 witness: a file with readings at both timestamps was imported into a
\* store that held a synced reading at the second: the synced reading is
\* kept, the imported reading at the first timestamp was added before it.
C36_Witness ==
    /\ platform = "mobile"
    /\ last = [op |-> "importData", newCount |-> 1, total |-> 2]
    /\ Len(appData.readings) = 2
    /\ appData.readings[1].timestamp = 1 /\ appData.readings[1].inr = 35
    /\ appData.readings[2].timestamp = 2 /\ appData.readings[2].inr = 25

----------------------------------------------------------------------------
(* Claims about the sync screen, checked under SpecScreen *)

\* C37 (as claimed): while the status is 'connecting' or 'syncing' it changes
\* only to 'syncing', 'complete' or 'error'; the scan promise resolving at its
\* timeout does not reset it to 'idle'.
C37_SyncStatusNotReset ==
    [][(screen.status \in {"connecting", "syncing"} /\ screen'.status # screen.status) =>
           screen'.status \in {"syncing", "complete", "error"}]_vars

----------------------------------------------------------------------------
(* Claims about syncData, checked under SpecSync *)

Waiting == {"wait3000", "wait2000a", "wait2000b", "wait15000"}

RequestsIn(out) == {i \in 1..Len(out) : out[i].kind \in {"REQ", "RAW"}}

\* C39: a started syncData settles (resolved or rejected) whatever the device
\* sends; it resolves with the readings parsed so far; after the first wait it
\* goes on to the commands and the Request exactly when no reading has been
\* parsed, and otherwise writes nothing before it resolves; without a connected
\* device it fails at once.
C39_SyncDataSettles ==
    /\ (ble.pc \in Waiting) ~> (ble.pc \in {"resolved", "rejected"})
    /\ [][/\ (ble.pc = "idle" /\ ~ble.connected /\ ble'.pc # "idle") =>
                ble'.pc = "rejected"
          /\ (ble.pc = "wait3000" /\ ble'.pc # "wait3000") =>
                IF Len(ble.readings) = 0
                THEN ble'.pc = "wait2000a"
                ELSE ble'.pc = "wait15000" /\ ble'.out = ble.out
          /\ (ble.pc = "wait15000" /\ ble'.pc # "wait15000") =>
                /\ ble'.pc = "resolved"
                /\ ble'.result = ble.readings
                /\ RequestsIn(ble'.out) = RequestsIn(ble.out)
          /\ (ble.pc \in Waiting /\ ble'.pc = ble.pc) =>
                RequestsIn(ble'.out) = RequestsIn(ble.out)]_vars

\* C39 witness: the device sent nothing, syncData wrote its Request and
\* resolved with no reading.
C39_Witness ==
    /\ ble.pc = "resolved"
    /\ ble.recv = <<>>
    /\ ble.result = <<>>
    /\ \E i \in 1..Len(ble.out) : ble.out[i].kind = "REQ"

====
